---- MODULE Spec2Model ----
(***************************************************************************)
(* State-machine model of the Stimulus signal/slot library                 *)
(* (include/stimulus.h): signals with copy-on-write subscriber lists,      *)
(* connection holders, connections, guards and the emission engine.        *)
(***************************************************************************)
EXTENDS Integers, Sequences, FiniteSets, TLC

\* ------------------------------------------------------------------------
\* Bounds of the model
\* ------------------------------------------------------------------------
MaxHolders == 2
MaxDepth == 2
MaxInhibitors == 2
MaxScoped == 2
MaxHandlers == 2
MaxWork == 2
MaxRuns == 2
MaxValue == 2
MaxHandles == 3
MaxBlocks == 2
MaxPointers == 3
MaxCount == 3

\* ------------------------------------------------------------------------
\* Universe
\* ------------------------------------------------------------------------
Signals == {"s1", "s2"}
Guards == {"g1"}
Variants == {"callable", "guarded", "member"}
NoGuard == "no_guard"
NoThread == "no_thread"
NoSignal == "no_signal"
NoPending == [op |-> "none"]
NoHolder == 0
\* argument values of emit; a value argument that was moved out of
Args == {"a1", "a2"}
NoArg == "no_arg"
Moved == "moved_from"
\* signals derive from guard: both own a list of scoped connections
GuardLike == Guards \cup Signals

VARIABLES
    holder,               \* connection_holder_implementation records, by creation order
    m_slots,              \* signal::m_slots, the published subscriber list of each signal
    m_mutex,              \* signal::m_mutex, the thread inside a critical section
    m_emitting_sources,   \* guard::m_emitting_sources, connections owned by each guard
    guard_alive,          \* whether the guard (receiver object) still exists
    stack,                \* per thread: the emit calls in progress, innermost last
    pending,              \* per thread: the critical section of connect_impl / disconnect
    fired,                \* history: holders whose slot has been started
    refired,              \* history: holders whose slot has been started more than once
    disconnected,         \* history: holders on which a disconnect has returned
    uaf,                  \* history: a destroyed object was used
    signal_alive,         \* whether the signal (its emitter object) still exists
    inhibitors,           \* the inhibitor objects constructed so far
    scoped,               \* the scoped_connection objects constructed by user code
    suspended_at_disconnect, \* history: holders that were suspended when disconnected
    work,                 \* the units of work handed to an asynchronous policy, in order
    heap                  \* unsafe_shared_pointer / unsafe_weak_pointer objects and the
                          \* pointer_holder blocks they refer to

\* objects whose lifetime the user controls
lifetime_vars == <<signal_alive, inhibitors, scoped, heap>>

vars == <<holder, m_slots, m_mutex, m_emitting_sources, guard_alive, stack,
          pending, fired, refired, disconnected, uaf, lifetime_vars,
          suspended_at_disconnect, work>>

\* ------------------------------------------------------------------------
\* Helpers
\* ------------------------------------------------------------------------
Range(s) == {s[i] : i \in 1..Len(s)}

Min(S) == CHOOSE x \in S : \A y \in S : x <= y

RECURSIVE RegOrder(_)
RegOrder(S) == IF S = {} THEN <<>> ELSE <<Min(S)>> \o RegOrder(S \ {Min(S)})

Occurrences(s, x) == Cardinality({i \in 1..Len(s) : s[i] = x})

Holders == 1..Len(holder)

Top(t) == stack[t][Len(stack[t])]

\* std::lock_guard lock { m_mutex }: the lock can be taken when nobody holds it
lock_available_broken(s, t) == TRUE
lock_available(s, t) == m_mutex[s] = NoThread

\* slots->emplace_back(new connection_holder_implementation(...))
connect_impl_slots_front(list, h) == <<h>> \o list
connect_impl_slots(list, h) == Append(list, h)

\* std::erase_if(*slots, [holder](slot) { return slot.get() == holder; })
erase_holder_none(list, h) == list
erase_holder_back(list, h) == SubSeq(list, 1, Len(list) - 1)
erase_holder(list, h) == SelectSeq(list, LAMBDA x : x # h)

\* guard::add_emitting_source: m_emitting_sources.emplace_back(source)
add_emitting_source_lost(list, h) == list
add_emitting_source(list, h) == Append(list, h)

\* operator(): if (m_suspended.load()) return;
is_skipped_never(h) == FALSE
is_skipped_or_disconnected(h) == holder[h].m_suspended \/ h \in disconnected
is_skipped(h) == holder[h].m_suspended

\* operator(): if (m_single_shot) disconnect();  -- before the slot is run
disconnects_first_never(h) == FALSE
disconnects_first(h) == holder[h].m_single_shot

\* A connection handle exists once connect_impl has returned it, until user
\* code destroys it
Handle(h) ==
    /\ h \in Holders
    /\ holder[h].connection
    /\ \A t \in DOMAIN pending : ~(pending[t].op = "connect" /\ pending[t].h = h)

\* shared ownership: a holder lives while a list version or a locked pointer
\* references it (weak_type::lock fails otherwise)
Alive(h) ==
    \/ \E s \in Signals : h \in Range(m_slots[s])
    \/ \E t \in DOMAIN stack : \E i \in 1..Len(stack[t]) : h \in Range(stack[t][i].slots)
    \/ \E t \in DOMAIN pending : pending[t].op # "none"
                                 /\ (h = pending[t].h \/ h \in Range(pending[t].slots))

\* weak_type::lock: a strong pointer, or null when the holder was destroyed
lock_resurrects(h) == TRUE
lock(h) == Alive(h)

\* the subscriptions of s that are connected, as the caller sees them
Connected(s) ==
    {h \in Holders :
        /\ holder[h].m_signal = s
        /\ \A t \in DOMAIN pending : ~(pending[t].op = "connect" /\ pending[t].h = h)
        /\ h \notin disconnected
        /\ signal_alive[s]}

\* user code of thread t runs at top level or inside a slot body
UserCode(t) ==
    /\ ~uaf
    /\ pending[t] = NoPending
    /\ IF stack[t] = <<>> THEN TRUE ELSE Top(t).pc = "slot"

\* ------------------------------------------------------------------------
\* Initial state: signals and guards constructed, nothing connected
\* ------------------------------------------------------------------------
InitOf(threads) ==
    /\ holder = <<>>
    /\ m_slots = [s \in Signals |-> <<>>]
    /\ m_mutex = [s \in Signals |-> NoThread]
    /\ m_emitting_sources = [g \in GuardLike |-> <<>>]
    /\ guard_alive = [g \in Guards |-> TRUE]
    /\ stack = [t \in threads |-> <<>>]
    /\ pending = [t \in threads |-> NoPending]
    /\ fired = {}
    /\ refired = {}
    /\ disconnected = {}
    /\ uaf = FALSE
    /\ signal_alive = [s \in Signals |-> TRUE]
    /\ inhibitors = <<>>
    /\ scoped = <<>>
    /\ suspended_at_disconnect = {}
    /\ work = <<>>
    /\ heap = [blocks |-> <<>>,
               pointers |-> [p \in 1..MaxPointers |-> [kind |-> "none", m_holder |-> 0]]]

\* ------------------------------------------------------------------------
\* signal::connect / connect_once / connect_with_guard -> connect_impl
\* ------------------------------------------------------------------------
NewHolder(t, s, once, v, g) ==
    [by |-> t,
     m_signal |-> s,
     m_single_shot |-> once,
     m_suspended |-> FALSE,
     m_guard |-> NoGuard,
     connection |-> TRUE,
     m_exception_handlers |-> <<>>,
     is_synchronous |-> TRUE,
     forward_to |-> NoSignal,
     lambdas |-> <<>>,        \* forwarding lambdas of adapters wrapped around the callable
     accepts |-> {},          \* argument counts the callable is invocable with
     memory |-> <<>>,         \* state of the copies of stateful predicates in m_slot
     expr |-> 0,              \* history: the pipeline expression it was made by
     receiver |-> IF v = "callable" THEN NoGuard ELSE g,
     member |-> (v = "member")]

\* connect_impl up to the swap, for the holder `new`, in a program that
\* makes at most n connections
ConnectUpTo(t, s, new, n) ==
    /\ UserCode(t)
    /\ Len(holder) < n
    /\ signal_alive[s]
    /\ new.receiver \in Guards => guard_alive[new.receiver]
    /\ new.forward_to # NoSignal => (signal_alive[new.forward_to] /\ new.forward_to # s)
    /\ lock_available(s, t)
    /\ LET h == Len(holder) + 1 IN
        /\ holder' = Append(holder, new)
        /\ m_mutex' = [m_mutex EXCEPT ![s] = t]
        /\ pending' = [pending EXCEPT ![t] =
                          [op |-> "connect", sig |-> s, h |-> h,
                           slots |-> connect_impl_slots(m_slots[s], h)]]
    /\ UNCHANGED <<m_slots, m_emitting_sources, guard_alive, stack, fired, refired,
                   disconnected, uaf, lifetime_vars, suspended_at_disconnect,
                   work>>

ConnectHolder(t, s, new) == ConnectUpTo(t, s, new, MaxHolders)

\* connect with the default synchronous_policy
ConnectBegin(t, s, once, v, g) == ConnectHolder(t, s, NewHolder(t, s, once, v, g))

\* emitter::connect(source, &Receiver::signal): the forwarding lambda is
\* connected to s and the connection is given to the guard part of signal d
forward_owner_none(d) == NoGuard
forward_owner(d) == d

ConnectForward(t, s, once, d) ==
    ConnectHolder(t, s, [NewHolder(t, s, once, "callable", NoGuard)
                            EXCEPT !.receiver = forward_owner(d), !.forward_to = d])

\* connect(callable, policy) with a policy whose is_synchronous is given
ConnectPolicy(t, s, once, sync) ==
    ConnectHolder(t, s, [NewHolder(t, s, once, "callable", NoGuard)
                            EXCEPT !.is_synchronous = sync])

ConnectEnd(t) ==
    /\ ~uaf
    /\ pending[t].op = "connect"
    /\ LET p == pending[t]
           g == holder[p.h].receiver IN
        /\ m_slots' = [m_slots EXCEPT ![p.sig] = p.slots]
        /\ m_mutex' = [m_mutex EXCEPT ![p.sig] = NoThread]
        /\ m_emitting_sources' =
              IF g # NoGuard
              THEN [m_emitting_sources EXCEPT ![g] = add_emitting_source(@, p.h)]
              ELSE m_emitting_sources
    /\ pending' = [pending EXCEPT ![t] = NoPending]
    /\ UNCHANGED <<holder, guard_alive, stack, fired, refired, disconnected, uaf,
                   lifetime_vars, suspended_at_disconnect,
                   work>>

\* ------------------------------------------------------------------------
\* connection::disconnect -> connection_holder_implementation::disconnect
\*                        -> signal::disconnect
\* ------------------------------------------------------------------------
\* connection::disconnect: nothing when lock() gives null; otherwise the holder
\* enters signal::disconnect of the signal it refers to
DisconnectLocked(t, h) ==
    IF ~lock(h)
    THEN UNCHANGED <<m_mutex, pending, uaf>>
    ELSE LET s == holder[h].m_signal IN
         /\ lock_available(s, t)
         /\ m_mutex' = [m_mutex EXCEPT ![s] = t]
         /\ pending' = [pending EXCEPT ![t] =
                           [op |-> "disconnect", sig |-> s, h |-> h,
                            slots |-> erase_holder(m_slots[s], h)]]
         /\ uaf' = (uaf \/ ~Alive(h) \/ ~signal_alive[s])

DisconnectBegin(t, h) ==
    /\ UserCode(t)
    /\ Handle(h)
    /\ DisconnectLocked(t, h)
    /\ UNCHANGED <<holder, m_slots, m_emitting_sources, guard_alive, stack, fired, refired,
                   disconnected, lifetime_vars, suspended_at_disconnect,
                   work>>

DisconnectEnd(t) ==
    /\ ~uaf
    /\ pending[t].op = "disconnect"
    /\ LET p == pending[t]
           g == holder[p.h].m_guard IN
        /\ m_slots' = [m_slots EXCEPT ![p.sig] = p.slots]
        /\ m_mutex' = [m_mutex EXCEPT ![p.sig] = NoThread]
        /\ m_emitting_sources' =
              IF g # NoGuard
              THEN [m_emitting_sources EXCEPT ![g] = erase_holder(@, p.h)]
              ELSE m_emitting_sources
        /\ holder' = IF g # NoGuard
                     THEN [holder EXCEPT ![p.h].m_guard = NoGuard]
                     ELSE holder
        /\ disconnected' = disconnected \cup {p.h}
        /\ suspended_at_disconnect' =
              IF p.h \notin disconnected /\ holder[p.h].m_suspended
              THEN suspended_at_disconnect \cup {p.h}
              ELSE suspended_at_disconnect
    /\ pending' = [pending EXCEPT ![t] = NoPending]
    /\ UNCHANGED <<guard_alive, stack, fired, refired, uaf, lifetime_vars,
                   work>>

\* ------------------------------------------------------------------------
\* connection::suspend / connection::resume
\* ------------------------------------------------------------------------
\* m_suspended.store(value), nothing when lock() gives null
StoreSuspended(h, value) ==
    /\ holder' = IF lock(h) THEN [holder EXCEPT ![h].m_suspended = value] ELSE holder
    /\ uaf' = (uaf \/ (lock(h) /\ ~Alive(h)))

\* history: a resume of h reaches the inhibitors that wrap h, except `self`
Disturbed(list, h, self) ==
    [i \in 1..Len(list) |->
        IF list[i].h = h /\ i # self /\ list[i].alive
        THEN [list[i] EXCEPT !.undisturbed = FALSE]
        ELSE list[i]]

SetSuspended(t, h, value) ==
    /\ UserCode(t)
    /\ Handle(h)
    /\ StoreSuspended(h, value)
    /\ inhibitors' = IF value THEN inhibitors ELSE Disturbed(inhibitors, h, 0)
    /\ UNCHANGED <<m_slots, m_mutex, m_emitting_sources, guard_alive, stack, pending,
                   fired, refired, disconnected, signal_alive, scoped,
                   suspended_at_disconnect,
                   work, heap>>

Suspend(t, h) == SetSuspended(t, h, TRUE)

Resume(t, h) == SetSuspended(t, h, FALSE)

\* ------------------------------------------------------------------------
\* partial_call, the adapters map / transform / filter and operator|
\* ------------------------------------------------------------------------
\* argument values, and the number of arguments of each signal
Values == 0..MaxValue
Arity == [s \in Signals |-> IF s = "s1" THEN 2 ELSE 1]
Tuples(n) == [1..n -> Values]

\* partial_call: the callable is tried with all the arguments, then with one
\* less, down to none; `accepts` holds the counts it is invocable with
RECURSIVE partial_call(_, _)
partial_call_shortest(accepts, n) ==
    IF \E k \in 0..n : k \in accepts
    THEN CHOOSE k \in 0..n : k \in accepts /\ \A j \in 0..(k - 1) : j \notin accepts
    ELSE 0

partial_call(accepts, n) ==
    IF n \in accepts \/ n = 0 THEN n ELSE partial_call(accepts, n - 1)

\* the arguments a callable receives from partial_call(callable, args...)
Received(accepts, args) == SubSeq(args, 1, partial_call(accepts, Len(args)))

\* the adapter values
map(indexes) == [kind |-> "map", indexes |-> indexes, pred |-> "", fns |-> <<>>]
transform(fns) == [kind |-> "transform", indexes |-> <<>>, pred |-> "", fns |-> fns]
filter(pred) == [kind |-> "filter", indexes |-> <<>>, pred |-> pred, fns |-> <<>>]
connect(accepts) == [kind |-> "connect", accepts |-> accepts]
\* chainable::operator|
composed_chainable(lhs, rhs) == [kind |-> "composed", m_lhs |-> lhs, m_rhs |-> rhs]
chain(chainable, c) == [kind |-> "chain", m_chainable |-> chainable, m_connect |-> c]

\* user functions given to transform, and std::identity
Transformation(fn, v) ==
    CASE fn = "inc" -> v + 1
      [] fn = "dbl" -> 2 * v
      [] fn = "identity" -> v

\* user predicates given to filter: the argument counts they are invocable
\* with, their initial state, their result and their state after a call
PredAccepts(pred) ==
    CASE pred = "is_even" -> {1}
      [] pred = "is_less" -> {2}
      [] pred = "every_other" -> {0}

PredResult(pred, args, mem) ==
    CASE pred = "is_even" -> args[1] % 2 = 0
      [] pred = "is_less" -> args[1] < args[2]
      [] pred = "every_other" -> mem = 0

PredAfter(pred, mem) == IF pred = "every_other" THEN 1 - mem ELSE mem

\* a source: the root signal, its args tuple size and the forwarding lambdas
\* to wrap a callable in, outermost first; connected once a connect consumed it
signal_source(s) ==
    [root |-> s, args |-> Arity[s], lambdas |-> <<>>, connected |-> FALSE, accepts |-> {}]

\* transform::accept pads the transformations with std::identity
transform_accept(src, a) ==
    a.fns \o [k \in 1..(src.args - Len(a.fns)) |-> "identity"]

\* map::accept / transform::accept / filter::accept
accept(src, a) ==
    CASE a.kind = "map" ->
            [src EXCEPT !.args = Len(a.indexes), !.lambdas = Append(@, a)]
      [] a.kind = "transform" ->
            [src EXCEPT !.lambdas = Append(@, transform(transform_accept(src, a)))]
      [] a.kind = "filter" ->
            [src EXCEPT !.lambdas = Append(@, a)]

\* source | x for an adapter, a composed adapter, a chain or a connect
composed_pipe_rhs_first(src, lhs, rhs) == <<rhs, lhs>>
composed_pipe(src, lhs, rhs) == <<lhs, rhs>>

RECURSIVE Pipe(_, _)
Pipe(src, x) ==
    CASE x.kind = "composed" ->
            Pipe(Pipe(src, composed_pipe(src, x.m_lhs, x.m_rhs)[1]),
                 composed_pipe(src, x.m_lhs, x.m_rhs)[2])
      [] x.kind = "chain" -> Pipe(Pipe(src, x.m_chainable), x.m_connect)
      [] x.kind = "connect" -> [src EXCEPT !.connected = TRUE, !.accepts = x.accepts]
      [] OTHER -> accept(src, x)

\* what the requires-clauses demand of source | x: indexes in range and all
\* different, no more transformations than arguments, predicates and
\* callables invocable with a prefix; -1 when the expression is rejected
RECURSIVE ArgsAfter(_, _)
ArgsAfter(n, lambdas) ==
    IF lambdas = <<>> THEN n
    ELSE LET a == Head(lambdas)
             ok == CASE a.kind = "map" ->
                           /\ \A k \in 1..Len(a.indexes) : a.indexes[k] \in 0..(n - 1)
                           /\ \A j, k \in 1..Len(a.indexes) :
                                 j # k => a.indexes[j] # a.indexes[k]
                     [] a.kind = "transform" -> Len(a.fns) = n
                     [] a.kind = "filter" -> \E k \in PredAccepts(a.pred) : k <= n
             m == IF a.kind = "map" THEN Len(a.indexes) ELSE n IN
         IF ok THEN ArgsAfter(m, Tail(lambdas)) ELSE -1

WellFormed(src) ==
    /\ src.connected
    /\ ArgsAfter(Arity[src.root], src.lambdas) >= 0
    /\ \E k \in src.accepts : k <= ArgsAfter(Arity[src.root], src.lambdas)

\* mapped_source::forwarding_lambda: args...[Indexes]...
map_lambda_in_order(indexes, args) == SubSeq(args, 1, Len(indexes))
map_lambda(indexes, args) == [k \in 1..Len(indexes) |-> args[indexes[k] + 1]]

\* transformed_source::forwarding_lambda: transformationsCallable(args)...
transform_lambda_first_to_all(fns, args) ==
    [k \in 1..Len(args) |-> Transformation(fns[1], args[k])]
transform_lambda(fns, args) ==
    [k \in 1..Len(args) |-> Transformation(fns[k], args[k])]

\* filtered_source::forwarding_lambda: partial_call(filter, args...)
filter_lambda_passes_all(pred, args, mem) == TRUE
filter_lambda(pred, args, mem) ==
    PredResult(pred, Received(PredAccepts(pred), args), mem)

\* the nested forwarding lambdas, from lambda i on, called with args; the
\* innermost partial_call invokes the user callable
RECURSIVE Lambdas(_, _, _, _)
Lambdas(h, i, args, memory) ==
    IF i > Len(h.lambdas)
    THEN [calls |-> <<Received(h.accepts, args)>>, memory |-> memory]
    ELSE LET a == h.lambdas[i] IN
         CASE a.kind = "map" -> Lambdas(h, i + 1, map_lambda(a.indexes, args), memory)
           [] a.kind = "transform" ->
                 Lambdas(h, i + 1, transform_lambda(a.fns, args), memory)
           [] a.kind = "filter" ->
                 LET after == [memory EXCEPT ![i] = PredAfter(a.pred, @)] IN
                 IF filter_lambda(a.pred, args, memory[i])
                 THEN Lambdas(h, i + 1, args, after)
                 ELSE [calls |-> <<>>, memory |-> after]

\* the forwarding lambdas capture the predicate by copy (filter = m_filter):
\* the holder whose m_slot holds the predicate state that holder h uses
predicate_copy_shared(h) == 1
predicate_copy(h) == h

\* generate_slot: m_slot of holder h called with the emitted arguments
m_slot(h, args) == Lambdas(holder[h], 1, args, holder[predicate_copy(h)].memory)

\* source | x, for x ending in a connect: connectable::connect hands the
\* callable wrapped in the forwarding lambdas to the connect of the root
\* signal, which makes one more connection holder
Attached(t, src, i) ==
    [NewHolder(t, src.root, FALSE, "callable", NoGuard)
        EXCEPT !.lambdas = src.lambdas, !.accepts = src.accepts,
               !.memory = [k \in 1..Len(src.lambdas) |-> 0], !.expr = i]

\* source | xs[1] | xs[2] | ... : operator| groups from the left
RECURSIVE PipeAll(_, _)
PipeAll(src, xs) == IF xs = <<>> THEN src ELSE PipeAll(Pipe(src, Head(xs)), Tail(xs))

\* the pipeline expressions of the model, for a connect c at their end
Catalog(c) ==
    << <<c>>,
       <<map(<<1, 0>>), c>>,
       <<map(<<0>>), c>>,
       <<map(<<1>>), c>>,
       <<map(<<>>), c>>,
       <<transform(<<"inc">>), c>>,
       <<transform(<<"inc", "dbl">>), c>>,
       <<filter("is_even"), c>>,
       <<filter("is_less"), c>>,
       <<filter("every_other"), c>>,
       \* source | a | b | connect, source | (a | b) | connect,
       \* source | ((a | b) | connect), and b before a
       <<filter("is_even"), transform(<<"inc">>), c>>,
       <<composed_chainable(filter("is_even"), transform(<<"inc">>)), c>>,
       <<chain(composed_chainable(filter("is_even"), transform(<<"inc">>)), c)>>,
       <<transform(<<"inc">>), filter("is_even"), c>>,
       \* a chain value with a stateful predicate, usable on both signals
       <<chain(composed_chainable(composed_chainable(map(<<0>>), filter("every_other")),
                                  transform(<<"dbl">>)), c)>> >>

Plain == {1}
Maps == 2..5
Transforms == 6..7
Filters == 8..10
Compositions == 11..14
Chains == {15}

\* source | ... | connect(callable) for expression i of the catalog
Attach(t, s, i, accepts) ==
    LET src == PipeAll(signal_source(s), Catalog(connect(accepts))[i]) IN
    /\ Len(holder) < MaxHolders
    /\ WellFormed(src)
    /\ ConnectHolder(t, s, Attached(t, src, i))

\* emitter::connect(source, &Receiver::signal) for expression i of the
\* catalog as the source: the callable at the end of the pipeline is the
\* forwarding lambda of signal d, whose inner lambda is invocable with as many
\* arguments as d has
AttachForward(t, s, i, d, n) ==
    LET src == PipeAll(signal_source(s), Catalog(connect({Arity[d]}))[i]) IN
    /\ Len(holder) < n
    /\ WellFormed(src)
    /\ ConnectUpTo(t, s, [Attached(t, src, i) EXCEPT !.receiver = forward_owner(d),
                                                   !.forward_to = d], n)

\* ------------------------------------------------------------------------
\* signal::emit
\* ------------------------------------------------------------------------
Frame(s) ==
    [sig |-> s, slots |-> m_slots[s], it |-> 1, pc |-> "call",
     handlers |-> <<>>,                \* exception_handlers of the dispatch in progress
     arg |-> NoArg,                    \* emitted_args
     \* history of this emit call
     threw |-> {},                     \* the dispatches whose slot threw
     hcalls |-> <<>>,                  \* calls of exception handlers, in order
     posted |-> <<>>,                  \* holders for which a unit of work was handed over
     calls |-> <<>>,                   \* calls of user callables: holder and arguments
     moved |-> FALSE,                  \* emitted_args was moved from
     passed |-> <<>>,                  \* what each dispatch was given, and how
     log |-> <<>>,                     \* holders whose slot it started, in order
     seen |-> {},                      \* holders found suspended when dispatched
     late |-> {},                      \* holders found disconnected when dispatched
     reg |-> RegOrder(Connected(s)),   \* connected holders at the call, by connect order
     gone |-> disconnected,            \* holders already disconnected at the call
     \* holders of the snapshot that were suspended at the call
     asleep |-> {h \in Range(m_slots[s]) : holder[h].m_suspended}]

\* copy_slots: the lock_guard is released when the copy of the pointer is
\* returned; the mutex after the call by thread t
copy_slots_keeps_lock(mx, s, t) == [mx EXCEPT ![s] = t]
copy_slots(mx, s, t) == mx

\* auto slots { copy_slots() }: the loop of emit iterates the list version it
\* took; connect_impl and disconnect swap in a new vector and never write to
\* a published one
snapshot_sees_publication(f) ==
    IF f.it <= Len(m_slots[f.sig]) THEN m_slots[f.sig] ELSE f.slots
snapshot(f) == f.slots

\* emit(a); the policy object of the model stores at most MaxWork units
EmitWith(t, s, depth, a) ==
    /\ UserCode(t)
    /\ signal_alive[s]
    /\ Len(stack[t]) < depth
    /\ lock_available(s, t)
    /\ Len(work) + Cardinality({i \in 1..Len(m_slots[s]) :
                                   /\ ~holder[m_slots[s][i]].is_synchronous
                                   /\ ~holder[m_slots[s][i]].m_suspended}) <= MaxWork
    /\ stack' = IF m_slots[s] = <<>> THEN stack
                ELSE [stack EXCEPT ![t] = Append(@, [Frame(s) EXCEPT !.arg = a])]
    /\ m_mutex' = copy_slots(m_mutex, s, t)
    /\ UNCHANGED <<holder, m_slots, m_emitting_sources, guard_alive, pending,
                   fired, refired, disconnected, uaf, lifetime_vars,
                   suspended_at_disconnect,
                   work>>

Emit(t, s, depth) == EmitWith(t, s, depth, NoArg)

\* the loop of emit moves to the next subscriber, or emit returns
Advanced(st, f) ==
    IF f.it = Len(snapshot(f))
    THEN SubSeq(st, 1, Len(st) - 1)
    ELSE [st EXCEPT ![Len(st)] = [f EXCEPT !.it = f.it + 1, !.pc = "call"]]

\* connection_holder_implementation::operator(): the suspended test
Check(t) ==
    /\ ~uaf
    /\ stack[t] # <<>>
    /\ Top(t).pc = "call"
    /\ LET h == snapshot(Top(t))[Top(t).it]
           f == [Top(t) EXCEPT
                    !.seen = IF holder[h].m_suspended THEN @ \cup {h} ELSE @,
                    !.late = IF h \in disconnected THEN @ \cup {h} ELSE @] IN
        stack' = [stack EXCEPT ![t] =
                    IF is_skipped(h)
                    THEN Advanced(@, f)
                    ELSE [@ EXCEPT ![Len(@)] = [f EXCEPT !.pc = "shot"]]]
    /\ UNCHANGED <<holder, m_slots, m_mutex, m_emitting_sources, guard_alive, pending,
                   fired, refired, disconnected, uaf, lifetime_vars,
                   suspended_at_disconnect,
                   work>>

\* copy_exception_handlers(): the handlers of this holder, copied under its
\* own mutex
copy_exception_handlers_of_signal(h) ==
    LET others == SelectSeq(m_slots[holder[h].m_signal],
                            LAMBDA x : holder[x].m_exception_handlers # <<>>) IN
    IF others = <<>> THEN <<>> ELSE holder[others[1]].m_exception_handlers
copy_exception_handlers(h) == holder[h].m_exception_handlers

\* operator(): if (m_policy.is_synchronous()) the slot is executed in place
runs_inline_always(h) == TRUE
runs_inline(h) == holder[h].is_synchronous

\* the closure given to an asynchronous policy: a copy of the handlers, a copy
\* of the slot and the arguments by value
UnitOfWork(h, a) ==
    [h |-> h, exception_handlers |-> copy_exception_handlers(h), args |-> a,
     \* history of the unit
     emitted |-> a,          \* the argument of the emit that made it
     runs |-> <<>>,          \* its executions: argument received and outcome
     \* whether its first execution found the connection disconnected or suspended
     stale |-> FALSE]

\* a value argument that was moved into a slot or a closure
MovedFrom(a) == IF a = NoArg THEN NoArg ELSE Moved

\* emit: (**it)(emitted_args...) for the entries before the last one,
\* (*slots->back())(std::forward<EmittedArgs>(emitted_args)...) for the last
forwarded_always(f) == TRUE
forwarded(f) == f.it = Len(f.slots)

\* what the dispatch in progress of frame f finds in emitted_args
emitted_args(f) == IF f.moved THEN MovedFrom(f.arg) ELSE f.arg

\* the frame after the slot (or the closure) of holder h took its parameters:
\* by copy from an lvalue, by move from the forwarded arguments
Taken(f, h) ==
    [f EXCEPT !.passed = Append(@, [slot |-> h, value |-> emitted_args(f),
                                    moved |-> forwarded(f)]),
              !.moved = @ \/ forwarded(f)]

\* connection_holder_implementation::operator(): single-shot disconnect, then
\* the policy executes the slot
Invoke(t) ==
    /\ ~uaf
    /\ stack[t] # <<>>
    /\ Top(t).pc = "shot"
    /\ LET f == Top(t)
           h == snapshot(f)[f.it]
           s == holder[h].m_signal IN
        /\ IF disconnects_first(h)
           THEN /\ lock_available(s, t)
                /\ m_slots' = [m_slots EXCEPT ![s] = erase_holder(@, h)]
                /\ disconnected' = disconnected \cup {h}
                /\ suspended_at_disconnect' =
                      IF h \notin disconnected /\ holder[h].m_suspended
                      THEN suspended_at_disconnect \cup {h}
                      ELSE suspended_at_disconnect
           ELSE UNCHANGED <<m_slots, disconnected, suspended_at_disconnect>>
        /\ ~holder[h].is_synchronous => Len(work) < MaxWork
        /\ holder' = IF runs_inline(h) /\ holder[h].accepts # {}
                      THEN [holder EXCEPT ![predicate_copy(h)].memory = m_slot(h, emitted_args(f)).memory]
                      ELSE holder
        /\ IF runs_inline(h)
           THEN /\ stack' = [stack EXCEPT ![t][Len(stack[t])] =
                               [Taken(f, h)
                                  EXCEPT !.pc = IF holder[h].forward_to = NoSignal
                                                THEN "slot" ELSE "forward",
                                         !.log = Append(f.log, h),
                                         !.calls = IF holder[h].accepts = {} THEN @
                                                   ELSE @ \o [k \in 1..Len(m_slot(h, emitted_args(f)).calls) |->
                                                                [slot |-> h,
                                                                 args |-> m_slot(h, emitted_args(f))
                                                                             .calls[k]]],
                                         !.handlers = copy_exception_handlers(h)]]
                /\ fired' = fired \cup {h}
                /\ refired' = IF h \in fired THEN refired \cup {h} ELSE refired
                /\ uaf' = (holder[h].member /\ ~guard_alive[holder[h].receiver])
                /\ work' = work
           ELSE /\ stack' = [stack EXCEPT ![t] =
                               Advanced(@, [Taken(f, h) EXCEPT !.posted = Append(f.posted, h)])]
                /\ work' = Append(work, UnitOfWork(h, emitted_args(f)))
                /\ UNCHANGED <<fired, refired, uaf>>
    /\ UNCHANGED <<m_mutex, m_emitting_sources, guard_alive, pending, lifetime_vars>>

\* emitter::forwarding_lambda: partial_call on a lambda that takes exactly
\* sizeof...(ReceiverArgs) arguments and emits them; the argument lists of the
\* emits holder h makes on its destination for the dispatch of frame f
forwarding_lambda_unadapted(h, f) == <<f.arg>>
forwarding_lambda(h, f) ==
    IF holder[h].accepts = {} THEN <<f.arg>>
    ELSE LET made == SelectSeq(f.calls, LAMBDA c : c.slot = h) IN
         [k \in 1..Len(made) |-> made[k].args]

\* the slot is a forwarding lambda: emitted_signal.emit(args...)
Forward(t) ==
    /\ ~uaf
    /\ stack[t] # <<>>
    /\ Top(t).pc = "forward"
    /\ LET f == Top(t)
           d == holder[f.slots[f.it]].forward_to
           emits == forwarding_lambda(f.slots[f.it], f)
           st == [stack[t] EXCEPT ![Len(stack[t])] = [f EXCEPT !.pc = "forwarded"]] IN
        /\ (emits # <<>> /\ signal_alive[d]) => lock_available(d, t)
        /\ uaf' = (emits # <<>> /\ ~signal_alive[d])
        /\ stack' = [stack EXCEPT ![t] =
                        IF emits # <<>> /\ signal_alive[d] /\ m_slots[d] # <<>>
                        THEN Append(st, [Frame(d) EXCEPT !.arg = emits[1]])
                        ELSE st]
    /\ UNCHANGED <<holder, m_slots, m_mutex, m_emitting_sources, guard_alive, pending,
                   fired, refired, disconnected, lifetime_vars, suspended_at_disconnect,
                   work>>

\* the forwarding lambda returns
ForwardReturn(t) ==
    /\ ~uaf
    /\ stack[t] # <<>>
    /\ Top(t).pc = "forwarded"
    /\ stack' = [stack EXCEPT ![t] = Advanced(@, Top(t))]
    /\ UNCHANGED <<holder, m_slots, m_mutex, m_emitting_sources, guard_alive, pending,
                   fired, refired, disconnected, uaf, lifetime_vars,
                   suspended_at_disconnect, work>>

\* the slot body returns
Return(t) ==
    /\ UserCode(t)
    /\ stack[t] # <<>>
    /\ stack' = [stack EXCEPT ![t] = Advanced(@, Top(t))]
    /\ UNCHANGED <<holder, m_slots, m_mutex, m_emitting_sources, guard_alive, pending,
                   fired, refired, disconnected, uaf, lifetime_vars,
                   suspended_at_disconnect,
                   work>>

\* ------------------------------------------------------------------------
\* connection::add_exception_handler and safe_execute
\* ------------------------------------------------------------------------
\* a handler is named by the connection it was given to and its rank among
\* the handlers of that connection
AddExceptionHandler(t, h) ==
    /\ UserCode(t)
    /\ Handle(h)
    /\ Len(holder[h].m_exception_handlers) < MaxHandlers
    /\ holder' = IF lock(h)
                 THEN [holder EXCEPT ![h].m_exception_handlers = Append(@, <<h, Len(@) + 1>>)]
                 ELSE holder
    /\ uaf' = (uaf \/ (lock(h) /\ ~Alive(h)))
    /\ UNCHANGED <<m_slots, m_mutex, m_emitting_sources, guard_alive, stack, pending,
                   fired, refired, disconnected, lifetime_vars, suspended_at_disconnect,
                   work>>

\* catch (...): if (exception_handlers.empty()) throw;
rethrows_never(list) == FALSE
rethrows(list) == list = <<>>

\* for (auto& handler: exception_handlers) handler(current_exception);
handler_calls_first(list, exception) == <<[handler |-> list[1], exception |-> exception]>>
handler_calls(list, exception) ==
    [i \in 1..Len(list) |-> [handler |-> list[i], exception |-> exception]]

\* the exception leaves safe_execute, operator() and the loop of emit
rethrown_continues(st, f) ==
    IF f.it = Len(f.slots)
    THEN SubSeq(st, 1, Len(st) - 1)
    ELSE [st EXCEPT ![Len(st)] = [f EXCEPT !.it = f.it + 1, !.pc = "call"]]
rethrown(st, f) == [st EXCEPT ![Len(st)] = [f EXCEPT !.pc = "threw"]]

\* safe_execute when the slot of the innermost dispatch of st throws
ThrowIn(st) ==
    LET f0 == st[Len(st)]
        exception == [slot |-> f0.slots[f0.it], at |-> f0.it]
        f == [f0 EXCEPT !.threw = @ \cup
                 {[at |-> f0.it, handlers |-> f0.handlers,
                   registered |-> holder[f0.slots[f0.it]].m_exception_handlers]}] IN
    IF rethrows(f.handlers)
    THEN rethrown(st, f)
    ELSE Advanced(st, [f EXCEPT !.hcalls = @ \o handler_calls(f.handlers, exception)])

\* try { slot(...) } catch (...): neither branch of the catch block touches
\* the subscriber list of the signal; the list after the slot of h threw
caught_erases(list, h) == SelectSeq(list, LAMBDA x : x # h)
caught(list, h) == list

\* the slot body throws
Throw(t) ==
    /\ UserCode(t)
    /\ stack[t] # <<>>
    /\ stack' = [stack EXCEPT ![t] = ThrowIn(@)]
    /\ m_slots' = [m_slots EXCEPT ![Top(t).sig] = caught(@, Top(t).slots[Top(t).it])]
    /\ UNCHANGED <<holder, m_mutex, m_emitting_sources, guard_alive, pending,
                   fired, refired, disconnected, uaf, lifetime_vars,
                   suspended_at_disconnect,
                   work>>

\* the exception leaves emit: the caller of emit receives it
Unwind(t) ==
    /\ ~uaf
    /\ stack[t] # <<>>
    /\ Top(t).pc = "threw"
    /\ LET st == SubSeq(stack[t], 1, Len(stack[t]) - 1) IN
        stack' = [stack EXCEPT ![t] =
                    \* a forwarding lambda does not catch: its safe_execute does
                    IF st # <<>> /\ st[Len(st)].pc = "forwarded" THEN ThrowIn(st) ELSE st]
    /\ UNCHANGED <<holder, m_slots, m_mutex, m_emitting_sources, guard_alive, pending,
                   fired, refired, disconnected, uaf, lifetime_vars,
                   suspended_at_disconnect,
                   work>>

\* ------------------------------------------------------------------------
\* the policy (or its user) executes a unit of work: safe_execute on the
\* copies held by the closure
\* ------------------------------------------------------------------------
\* the handlers safe_execute is given
unit_handlers_live(u) == holder[u.h].m_exception_handlers
unit_handlers(u) == u.exception_handlers

\* the closure holds copies of the slot, the handlers and the arguments and
\* no reference to the holder: nothing the connection does later stops it
cancelled_with_connection(u) == u.h \in disconnected \/ holder[u.h].m_suspended
cancelled(u) == FALSE

RunWork(t, i, throws) ==
    /\ UserCode(t)
    /\ Len(work[i].runs) < MaxRuns
    /\ ~cancelled(work[i])
    /\ LET u == work[i]
           list == unit_handlers(u)
           outcome == IF ~throws THEN "returned"
                      ELSE IF rethrows(list) THEN "escaped" ELSE "handled"
           run == [received |-> u.args,
                   outcome |-> outcome,
                   hcalls |-> IF outcome = "handled"
                              THEN handler_calls(list, [slot |-> u.h, at |-> i])
                              ELSE <<>>,
                   registered |-> holder[u.h].m_exception_handlers] IN
        /\ work' = [work EXCEPT ![i] = [u EXCEPT !.runs = Append(@, run),
                                                 !.args = MovedFrom(@),
                                                 !.stale = IF u.runs = <<>>
                                                           THEN \/ u.h \in disconnected
                                                                \/ holder[u.h].m_suspended
                                                           ELSE @]]
        /\ fired' = fired \cup {u.h}
        /\ refired' = IF u.h \in fired THEN refired \cup {u.h} ELSE refired
        /\ uaf' = (uaf \/ (holder[u.h].member /\ ~guard_alive[holder[u.h].receiver]))
    /\ UNCHANGED <<holder, m_slots, m_mutex, m_emitting_sources, guard_alive, stack,
                   pending, disconnected, lifetime_vars, suspended_at_disconnect>>

\* ------------------------------------------------------------------------
\* guard::~guard: every scoped_connection of m_emitting_sources disconnects
\* ------------------------------------------------------------------------
RECURSIVE DisconnectAll(_, _)
DisconnectAll(ms, list) ==
    IF list = <<>> THEN ms
    ELSE LET h == Head(list) IN
         DisconnectAll(IF lock(h)
                       THEN [ms EXCEPT ![holder[h].m_signal] = erase_holder(@, h)]
                       ELSE ms,
                       Tail(list))

\* ~guard: the scoped connections of m_emitting_sources are destroyed
DestroySources(t, g, lists) ==
    LET locked == {h \in Range(m_emitting_sources[g]) : lock(h)} IN
    /\ \A h \in locked : lock_available(holder[h].m_signal, t)
    /\ m_slots' = DisconnectAll(lists, m_emitting_sources[g])
    /\ disconnected' = disconnected \cup locked
    /\ suspended_at_disconnect' = suspended_at_disconnect \cup
          {h \in locked \ disconnected : holder[h].m_suspended}
    /\ m_emitting_sources' = [m_emitting_sources EXCEPT ![g] = <<>>]
    /\ uaf' = (uaf \/ \E h \in locked : ~Alive(h) \/ ~signal_alive[holder[h].m_signal])

DestroyGuard(t, g) ==
    /\ UserCode(t)
    /\ guard_alive[g]
    /\ guard_alive' = [guard_alive EXCEPT ![g] = FALSE]
    /\ DestroySources(t, g, m_slots)
    /\ UNCHANGED <<holder, m_mutex, stack, pending, fired, refired, lifetime_vars,
                   work>>

\* ------------------------------------------------------------------------
\* ~signal: m_slots is released, then the guard base class is destroyed.
\* User code does not destroy a signal that is executing one of its methods.
\* ------------------------------------------------------------------------
DestroySignal(t, s) ==
    /\ UserCode(t)
    /\ signal_alive[s]
    /\ \A u \in DOMAIN stack : \A i \in 1..Len(stack[u]) : stack[u][i].sig # s
    /\ \A u \in DOMAIN pending : pending[u].op # "none" => pending[u].sig # s
    /\ signal_alive' = [signal_alive EXCEPT ![s] = FALSE]
    /\ DestroySources(t, s, [m_slots EXCEPT ![s] = <<>>])
    /\ UNCHANGED <<holder, m_mutex, guard_alive, stack, pending, fired, refired,
                   inhibitors, scoped,
                   work, heap>>

\* ------------------------------------------------------------------------
\* a plain connection object goes out of scope: ~connection releases the
\* weak pointer
\* ------------------------------------------------------------------------
DropConnection(t, h) ==
    /\ UserCode(t)
    /\ Handle(h)
    /\ holder' = [holder EXCEPT ![h].connection = FALSE]
    /\ UNCHANGED <<m_slots, m_mutex, m_emitting_sources, guard_alive, stack, pending,
                   fired, refired, disconnected, uaf, lifetime_vars,
                   suspended_at_disconnect,
                   work>>

\* ------------------------------------------------------------------------
\* scoped_connection
\* ------------------------------------------------------------------------
ScopedCreate(t, h) ==
    /\ UserCode(t)
    /\ Handle(h)
    /\ Len(scoped) < MaxScoped
    /\ scoped' = Append(scoped, [h |-> h, alive |-> TRUE])
    /\ UNCHANGED <<holder, m_slots, m_mutex, m_emitting_sources, guard_alive, stack,
                   pending, fired, refired, disconnected, uaf, signal_alive, inhibitors,
                   suspended_at_disconnect,
                   work, heap>>

\* scoped_connection::disconnect: m_connection.disconnect()
scoped_disconnect_noop(t, h) == UNCHANGED <<m_mutex, pending, uaf>>
scoped_disconnect(t, h) ==
    IF h = NoHolder THEN UNCHANGED <<m_mutex, pending, uaf>> ELSE DisconnectLocked(t, h)

ScopedDisconnect(t, i) ==
    /\ UserCode(t)
    /\ scoped[i].alive
    /\ scoped_disconnect(t, scoped[i].h)
    /\ UNCHANGED <<holder, m_slots, m_emitting_sources, guard_alive, stack, fired, refired,
                   disconnected, lifetime_vars, suspended_at_disconnect,
                   work>>

\* ~scoped_connection: disconnect()
ScopedDestroy(t, i) ==
    /\ UserCode(t)
    /\ scoped[i].alive
    /\ scoped_disconnect(t, scoped[i].h)
    /\ scoped' = [scoped EXCEPT ![i].alive = FALSE]
    /\ UNCHANGED <<holder, m_slots, m_emitting_sources, guard_alive, stack, fired, refired,
                   disconnected, signal_alive, inhibitors, suspended_at_disconnect,
                   work, heap>>

\* operator=(scoped_connection&&): the connection of `other` replaces the one
\* owned so far, which is not disconnected; `other` is left empty
ScopedMoveAssign(t, i, j) ==
    /\ UserCode(t)
    /\ i # j
    /\ scoped[i].alive /\ scoped[j].alive
    /\ scoped' = [scoped EXCEPT ![i].h = scoped[j].h, ![j].h = NoHolder]
    /\ UNCHANGED <<holder, m_slots, m_mutex, m_emitting_sources, guard_alive, stack,
                   pending, fired, refired, disconnected, uaf, signal_alive, inhibitors,
                   suspended_at_disconnect,
                   work, heap>>

\* ------------------------------------------------------------------------
\* inhibitor
\* ------------------------------------------------------------------------
\* inhibitor(connection): m_connection.suspend()
inhibitor_ctor_noop(h) == UNCHANGED <<holder, uaf>>
inhibitor_ctor(h) == StoreSuspended(h, TRUE)

\* ~inhibitor: m_connection.resume()
inhibitor_dtor_noop(h) == UNCHANGED <<holder, uaf>>
inhibitor_dtor(h) == StoreSuspended(h, FALSE)

InhibitorCreate(t, h) ==
    /\ UserCode(t)
    /\ Handle(h)
    /\ Len(inhibitors) < MaxInhibitors
    /\ inhibitor_ctor(h)
    /\ inhibitors' = Append(inhibitors, [h |-> h, alive |-> TRUE, undisturbed |-> TRUE])
    /\ UNCHANGED <<m_slots, m_mutex, m_emitting_sources, guard_alive, stack, pending,
                   fired, refired, disconnected, signal_alive, scoped,
                   suspended_at_disconnect,
                   work, heap>>

\* inhibitor(const inhibitor&) = default: the connection is copied, not suspended
InhibitorCopy(t, i) ==
    /\ UserCode(t)
    /\ inhibitors[i].alive
    /\ Len(inhibitors) < MaxInhibitors
    /\ inhibitors' = Append(inhibitors, inhibitors[i])
    /\ UNCHANGED <<holder, m_slots, m_mutex, m_emitting_sources, guard_alive, stack,
                   pending, fired, refired, disconnected, uaf, signal_alive, scoped,
                   suspended_at_disconnect,
                   work, heap>>

InhibitorDestroy(t, i) ==
    /\ UserCode(t)
    /\ inhibitors[i].alive
    /\ inhibitor_dtor(inhibitors[i].h)
    /\ inhibitors' = [Disturbed(inhibitors, inhibitors[i].h, i) EXCEPT ![i].alive = FALSE]
    /\ UNCHANGED <<m_slots, m_mutex, m_emitting_sources, guard_alive, stack, pending,
                   fired, refired, disconnected, signal_alive, scoped,
                   suspended_at_disconnect,
                   work, heap>>

\* ------------------------------------------------------------------------
\* Specifications
\* ------------------------------------------------------------------------
ListOps(t, sigs, onces, variants, depth) ==
    \/ \E s \in sigs, once \in onces, v \in variants, g \in Guards :
          ConnectBegin(t, s, once, v, g)
    \/ ConnectEnd(t)
    \/ \E h \in Holders : DisconnectBegin(t, h)
    \/ DisconnectEnd(t)
    \/ \E s \in sigs : Emit(t, s, depth)
    \/ Check(t)
    \/ Invoke(t)
    \/ Return(t)

FlagOps(t) ==
    \/ \E h \in Holders : Suspend(t, h)
    \/ \E h \in Holders : Resume(t, h)

\* single-threaded configuration (fake_mutex, unsafe_shared_pointer): one signal,
\* plain callables, reentrant emission from inside slots
Init == InitOf({"main"})

Next ==
    \E t \in {"main"} :
        \/ ListOps(t, {"s1"}, BOOLEAN, {"callable"}, MaxDepth)
        \/ FlagOps(t)

Spec == Init /\ [][Next]_vars

\* ------------------------------------------------------------------------
\* unsafe_shared_pointer / unsafe_weak_pointer and pointer_holder
\* ------------------------------------------------------------------------
\* unsafe_shared_pointer::increase and release on the block b refers to
shared_increase(blocks, b) ==
    IF b = 0 THEN blocks ELSE [blocks EXCEPT ![b].count = @ + 1]

shared_release(blocks, b) ==
    IF b = 0 THEN blocks
    ELSE IF blocks[b].count - 1 # 0
    THEN [blocks EXCEPT ![b].count = @ - 1]
    ELSE [blocks EXCEPT ![b] =
            [@ EXCEPT !.count = 0,
                      !.pointer = FALSE,
                      !.deletes = @ + 1,
                      !.freed = (blocks[b].weak_count = 0),
                      !.frees = IF blocks[b].weak_count = 0 THEN @ + 1 ELSE @]]

\* unsafe_weak_pointer::increase and release
weak_increase(blocks, b) ==
    IF b = 0 THEN blocks ELSE [blocks EXCEPT ![b].weak_count = @ + 1]

weak_release(blocks, b) ==
    IF b = 0 THEN blocks
    ELSE LET last == blocks[b].weak_count - 1 = 0 /\ blocks[b].count = 0 IN
         [blocks EXCEPT ![b] =
            [@ EXCEPT !.weak_count = @ - 1,
                      !.freed = last,
                      !.frees = IF last THEN @ + 1 ELSE @]]

\* unsafe_shared_pointer(T* pointer) for a new object
SharedNew(p) ==
    /\ heap.pointers[p].kind = "none"
    /\ Len(heap.blocks) < MaxBlocks
    /\ heap' = [blocks |-> Append(heap.blocks,
                           \* new pointer_holder { .pointer = pointer, .count = 1 };
                           \* deletes and frees count the deletions of the
                           \* managed object and of the block (history)
                           [count |-> 1, weak_count |-> 0,
                            pointer |-> TRUE, freed |-> FALSE,
                            deletes |-> 0, frees |-> 0]),
                   pointers |-> [heap.pointers EXCEPT ![p] =
                        [kind |-> "shared", m_holder |-> Len(heap.blocks) + 1]]]
    /\ UNCHANGED <<holder, m_slots, m_mutex, m_emitting_sources, guard_alive, stack,
                   pending, fired, refired, disconnected, uaf, signal_alive, inhibitors,
                   scoped, suspended_at_disconnect, work>>

\* the default constructors
DefaultConstruct(p, k) ==
    /\ heap.pointers[p].kind = "none"
    /\ heap' = [blocks |-> heap.blocks, pointers |-> [heap.pointers EXCEPT ![p] = [kind |-> k, m_holder |-> 0]]]
    /\ UNCHANGED <<holder, m_slots, m_mutex, m_emitting_sources, guard_alive, stack,
                   pending, fired, refired, disconnected, uaf, signal_alive, inhibitors,
                   scoped, suspended_at_disconnect, work>>

\* unsafe_shared_pointer(const unsafe_shared_pointer& other)
SharedCopy(p, q) ==
    /\ heap.pointers[p].kind = "none" /\ heap.pointers[q].kind = "shared"
    /\ heap' = [blocks |-> shared_increase(heap.blocks, heap.pointers[q].m_holder),
                   pointers |-> [heap.pointers EXCEPT ![p] = heap.pointers[q]]]
    /\ UNCHANGED <<holder, m_slots, m_mutex, m_emitting_sources, guard_alive, stack,
                   pending, fired, refired, disconnected, uaf, signal_alive, inhibitors,
                   scoped, suspended_at_disconnect, work>>

\* unsafe_shared_pointer(unsafe_shared_pointer&& other): swap with nullptr
SharedMove(p, q) ==
    /\ heap.pointers[p].kind = "none" /\ heap.pointers[q].kind = "shared"
    /\ heap' = [blocks |-> heap.blocks,
                   pointers |-> [heap.pointers EXCEPT ![p] = heap.pointers[q],
                                          ![q] = [kind |-> "shared", m_holder |-> 0]]]
    /\ UNCHANGED <<holder, m_slots, m_mutex, m_emitting_sources, guard_alive, stack,
                   pending, fired, refired, disconnected, uaf, signal_alive, inhibitors,
                   scoped, suspended_at_disconnect, work>>

\* unsafe_shared_pointer::operator=(const unsafe_shared_pointer& other)
SharedCopyAssign(p, q) ==
    /\ heap.pointers[p].kind = "shared" /\ heap.pointers[q].kind = "shared"
    /\ heap' = IF p = q THEN heap
               ELSE [blocks |-> shared_increase(shared_release(heap.blocks,
                                                        heap.pointers[p].m_holder),
                                         heap.pointers[q].m_holder),
                        pointers |-> [heap.pointers EXCEPT ![p] = heap.pointers[q]]]
    /\ UNCHANGED <<holder, m_slots, m_mutex, m_emitting_sources, guard_alive, stack,
                   pending, fired, refired, disconnected, uaf, signal_alive, inhibitors,
                   scoped, suspended_at_disconnect, work>>

\* unsafe_shared_pointer::operator=(unsafe_shared_pointer&& other)
SharedMoveAssign(p, q) ==
    /\ heap.pointers[p].kind = "shared" /\ heap.pointers[q].kind = "shared"
    /\ heap' = IF p = q THEN heap
               ELSE [blocks |-> shared_release(heap.blocks, heap.pointers[p].m_holder),
                        pointers |-> [heap.pointers EXCEPT ![p] = heap.pointers[q],
                                               ![q] = [kind |-> "shared", m_holder |-> 0]]]
    /\ UNCHANGED <<holder, m_slots, m_mutex, m_emitting_sources, guard_alive, stack,
                   pending, fired, refired, disconnected, uaf, signal_alive, inhibitors,
                   scoped, suspended_at_disconnect, work>>

\* ~unsafe_shared_pointer
SharedDestroy(p) ==
    /\ heap.pointers[p].kind = "shared"
    /\ heap' = [blocks |-> shared_release(heap.blocks, heap.pointers[p].m_holder),
                   pointers |-> [heap.pointers EXCEPT ![p] = [kind |-> "none", m_holder |-> 0]]]
    /\ UNCHANGED <<holder, m_slots, m_mutex, m_emitting_sources, guard_alive, stack,
                   pending, fired, refired, disconnected, uaf, signal_alive, inhibitors,
                   scoped, suspended_at_disconnect, work>>

\* unsafe_weak_pointer(unsafe_shared_pointer<T> shared_pointer): the parameter
\* is a copy that is destroyed when the constructor returns
WeakFromShared(p, q) ==
    /\ heap.pointers[p].kind = "none" /\ heap.pointers[q].kind = "shared"
    \* the weak count stays within the counts that are explored
    /\ heap.pointers[q].m_holder # 0 =>
        heap.blocks[heap.pointers[q].m_holder].weak_count < MaxCount
    /\ LET b == heap.pointers[q].m_holder IN
        heap' = [blocks |-> shared_release(weak_increase(shared_increase(heap.blocks, b), b), b),
                    pointers |-> [heap.pointers EXCEPT ![p] = [kind |-> "weak", m_holder |-> b]]]
    /\ UNCHANGED <<holder, m_slots, m_mutex, m_emitting_sources, guard_alive, stack,
                   pending, fired, refired, disconnected, uaf, signal_alive, inhibitors,
                   scoped, suspended_at_disconnect, work>>

\* unsafe_weak_pointer(const unsafe_weak_pointer& other)
WeakCopy(p, q) ==
    /\ heap.pointers[p].kind = "none" /\ heap.pointers[q].kind = "weak"
    \* the weak count stays within the counts that are explored
    /\ heap.pointers[q].m_holder # 0 =>
        heap.blocks[heap.pointers[q].m_holder].weak_count < MaxCount
    /\ heap' = [blocks |-> weak_increase(heap.blocks, heap.pointers[q].m_holder),
                   pointers |-> [heap.pointers EXCEPT ![p] = heap.pointers[q]]]
    /\ UNCHANGED <<holder, m_slots, m_mutex, m_emitting_sources, guard_alive, stack,
                   pending, fired, refired, disconnected, uaf, signal_alive, inhibitors,
                   scoped, suspended_at_disconnect, work>>

\* unsafe_weak_pointer(unsafe_weak_pointer&& other): swap with nullptr
WeakMove(p, q) ==
    /\ heap.pointers[p].kind = "none" /\ heap.pointers[q].kind = "weak"
    /\ heap' = [blocks |-> heap.blocks,
                   pointers |-> [heap.pointers EXCEPT ![p] = heap.pointers[q],
                                          ![q] = [kind |-> "weak", m_holder |-> 0]]]
    /\ UNCHANGED <<holder, m_slots, m_mutex, m_emitting_sources, guard_alive, stack,
                   pending, fired, refired, disconnected, uaf, signal_alive, inhibitors,
                   scoped, suspended_at_disconnect, work>>

\* unsafe_weak_pointer::operator=(const unsafe_weak_pointer& other)
WeakCopyAssign(p, q) ==
    /\ heap.pointers[p].kind = "weak" /\ heap.pointers[q].kind = "weak"
    \* the weak count stays within the counts that are explored
    /\ heap.pointers[q].m_holder # 0 =>
        heap.blocks[heap.pointers[q].m_holder].weak_count < MaxCount
    /\ heap' = IF p = q THEN heap
               ELSE [blocks |-> weak_increase(weak_release(heap.blocks,
                                                    heap.pointers[p].m_holder),
                                       heap.pointers[q].m_holder),
                        pointers |-> [heap.pointers EXCEPT ![p] = heap.pointers[q]]]
    /\ UNCHANGED <<holder, m_slots, m_mutex, m_emitting_sources, guard_alive, stack,
                   pending, fired, refired, disconnected, uaf, signal_alive, inhibitors,
                   scoped, suspended_at_disconnect, work>>

\* unsafe_weak_pointer::operator=(unsafe_weak_pointer&& other):
\* std::swap(m_holder, other.m_holder); other.m_holder = nullptr;
\* (no test for self-assignment, no release of the block held before)
WeakMoveAssign(p, q) ==
    /\ heap.pointers[p].kind = "weak" /\ heap.pointers[q].kind = "weak"
    /\ LET swapped == [heap.pointers EXCEPT ![p].m_holder = heap.pointers[q].m_holder,
                                            ![q].m_holder = heap.pointers[p].m_holder] IN
        heap' = [blocks |-> heap.blocks, pointers |-> [swapped EXCEPT ![q].m_holder = 0]]
    /\ UNCHANGED <<holder, m_slots, m_mutex, m_emitting_sources, guard_alive, stack,
                   pending, fired, refired, disconnected, uaf, signal_alive, inhibitors,
                   scoped, suspended_at_disconnect, work>>

\* ~unsafe_weak_pointer
WeakDestroy(p) ==
    /\ heap.pointers[p].kind = "weak"
    /\ heap' = [blocks |-> weak_release(heap.blocks, heap.pointers[p].m_holder),
                   pointers |-> [heap.pointers EXCEPT ![p] = [kind |-> "none", m_holder |-> 0]]]
    /\ UNCHANGED <<holder, m_slots, m_mutex, m_emitting_sources, guard_alive, stack,
                   pending, fired, refired, disconnected, uaf, signal_alive, inhibitors,
                   scoped, suspended_at_disconnect, work>>

\* unsafe_weak_pointer::lock
Lock(p, q) ==
    /\ heap.pointers[p].kind = "none" /\ heap.pointers[q].kind = "weak"
    /\ LET b == heap.pointers[q].m_holder IN
        heap' = IF b = 0 \/ heap.blocks[b].count = 0
                THEN [blocks |-> heap.blocks,
                         pointers |-> [heap.pointers EXCEPT ![p] = [kind |-> "shared", m_holder |-> 0]]]
                ELSE [blocks |-> shared_increase(heap.blocks, b),
                         pointers |-> [heap.pointers EXCEPT ![p] = [kind |-> "shared", m_holder |-> b]]]
    /\ UNCHANGED <<holder, m_slots, m_mutex, m_emitting_sources, guard_alive, stack,
                   pending, fired, refired, disconnected, uaf, signal_alive, inhibitors,
                   scoped, suspended_at_disconnect, work>>

\* single-threaded program that uses the pointers directly
NextPointer ==
    \E p, q \in 1..MaxPointers :
        \/ SharedNew(p)
        \/ \E k \in {"shared", "weak"} : DefaultConstruct(p, k)
        \/ SharedCopy(p, q)
        \/ SharedMove(p, q)
        \/ SharedCopyAssign(p, q)
        \/ SharedMoveAssign(p, q)
        \/ SharedDestroy(p)
        \/ WeakFromShared(p, q)
        \/ WeakCopy(p, q)
        \/ WeakMove(p, q)
        \/ WeakCopyAssign(p, q)
        \/ WeakMoveAssign(p, q)
        \/ WeakDestroy(p)
        \/ Lock(p, q)

SpecPointer == Init /\ [][NextPointer]_vars

\* single-threaded configuration in which no slot emits: the loop of emit
\* takes its next step, a connect or disconnect that was called completes,
\* and every slot body returns after finitely many operations of its own
NextTerm ==
    \E t \in {"main"} :
        \/ ListOps(t, {"s1"}, BOOLEAN, {"callable"}, 1)
        \/ FlagOps(t)

SpecTerm ==
    /\ Init
    /\ [][NextTerm]_vars
    /\ WF_vars(Check("main"))
    /\ WF_vars(Invoke("main"))
    /\ WF_vars(ConnectEnd("main"))
    /\ WF_vars(DisconnectEnd("main"))
    /\ SF_vars(Return("main"))

\* single-threaded configuration with guards, member-function slots and two
\* signals; no single-shot subscription, slots do not emit
NextGuard ==
    \E t \in {"main"} :
        \/ ListOps(t, Signals, {FALSE}, Variants, 1)
        \/ FlagOps(t)
        \/ \E g \in Guards : DestroyGuard(t, g)

SpecGuard == Init /\ [][NextGuard]_vars

InhibitorOps(t) ==
    \/ \E h \in Holders : InhibitorCreate(t, h)
    \/ \E i \in 1..Len(inhibitors) : InhibitorCopy(t, i)
    \/ \E i \in 1..Len(inhibitors) : InhibitorDestroy(t, i)

ScopedOps(t) ==
    \/ \E h \in Holders : DropConnection(t, h)
    \/ \E h \in Holders : ScopedCreate(t, h)
    \/ \E i \in 1..Len(scoped) : ScopedDisconnect(t, i)
    \/ \E i \in 1..Len(scoped) : ScopedDestroy(t, i)
    \/ \E i, j \in 1..Len(scoped) : ScopedMoveAssign(t, i, j)

ExceptionOps(t) ==
    \/ \E h \in Holders : AddExceptionHandler(t, h)
    \/ Throw(t)
    \/ Unwind(t)

\* single-threaded configuration with slots that throw and exception handlers
NextExc ==
    \E t \in {"main"} :
        \/ ListOps(t, {"s1"}, {FALSE}, {"callable"}, MaxDepth)
        \/ FlagOps(t)
        \/ ExceptionOps(t)

SpecExc == Init /\ [][NextExc]_vars

\* single-threaded configuration with synchronous and asynchronous policies,
\* emit with an argument, and units of work executed later by user code
AsyncOps(t) ==
    \/ \E sync \in BOOLEAN : ConnectPolicy(t, "s1", FALSE, sync)
    \/ ConnectEnd(t)
    \/ \E h \in Holders : DisconnectBegin(t, h)
    \/ DisconnectEnd(t)
    \/ \E a \in Args : EmitWith(t, "s1", 1, a)
    \/ Check(t)
    \/ Invoke(t)
    \/ Return(t)
    \/ \E i \in 1..Len(work), throws \in BOOLEAN : RunWork(t, i, throws)

NextAsync ==
    \E t \in {"main"} :
        \/ AsyncOps(t)
        \/ FlagOps(t)

SpecAsync == Init /\ [][NextAsync]_vars

\* the same with exception handlers, slots that throw and one argument value
NextAsyncExc ==
    \E t \in {"main"} :
        \/ \E sync \in BOOLEAN : ConnectPolicy(t, "s1", FALSE, sync)
        \/ ConnectEnd(t)
        \/ \E a \in {"a1"} : EmitWith(t, "s1", 1, a)
        \/ Check(t)
        \/ Invoke(t)
        \/ Return(t)
        \/ \E i \in 1..Len(work), throws \in BOOLEAN : RunWork(t, i, throws)
        \/ ExceptionOps(t)

SpecAsyncExc == Init /\ [][NextAsyncExc]_vars

\* single-threaded configuration of one signal with two arguments, to which
\* callables are connected directly or behind one adapter
Callables == {{0}, {1}, {2}, {0, 1}, {0, 2}}

PipelineOps(t, roots, exprs) ==
    \/ \E s \in roots, i \in exprs, c \in Callables : Attach(t, s, i, c)
    \/ ConnectEnd(t)
    \/ \E s \in roots : \E a \in Tuples(Arity[s]) : EmitWith(t, s, 1, a)
    \/ Check(t)
    \/ Invoke(t)
    \/ Return(t)

NextPartial == \E t \in {"main"} : PipelineOps(t, {"s1"}, Plain)

SpecPartial == Init /\ [][NextPartial]_vars

NextMap == \E t \in {"main"} : PipelineOps(t, {"s1"}, Maps)

SpecMap == Init /\ [][NextMap]_vars

NextTransform == \E t \in {"main"} : PipelineOps(t, {"s1"}, Transforms)

SpecTransform == Init /\ [][NextTransform]_vars

NextFilter == \E t \in {"main"} : PipelineOps(t, {"s1"}, Filters)

SpecFilter == Init /\ [][NextFilter]_vars

\* one signal, pipelines of two adapters in their different groupings
NextCompose == \E t \in {"main"} : PipelineOps(t, {"s1"}, Compositions)

SpecCompose == Init /\ [][NextCompose]_vars

\* one chain value attached to both signals, attachments disconnected
NextChain ==
    \E t \in {"main"} :
        \/ PipelineOps(t, Signals, Chains)
        \/ \E h \in Holders : DisconnectBegin(t, h)
        \/ DisconnectEnd(t)

SpecChain == Init /\ [][NextChain]_vars

\* single-threaded configuration in which signal s2 (owned by another object)
\* re-emits what s1 emits, and that object is destroyed
NextForward ==
    \E t \in {"main"} :
        \/ ListOps(t, Signals, {FALSE}, {"callable"}, 1)
        \/ \E once \in BOOLEAN : ConnectForward(t, "s1", once, "s2")
        \/ Forward(t)
        \/ ForwardReturn(t)
        \/ \E s \in {"s2"} : DestroySignal(t, s)

SpecForward == Init /\ [][NextForward]_vars

\* single-threaded configuration in which signal s2 (one argument) re-emits
\* what signal s1 (two arguments) or an adapted source of s1 emits: the plain
\* source and one map, one further adapted and one filtered source of the
\* catalog (expressions 1, 2, 4 and 8)

NextRelay ==
    \E t \in {"main"} :
        \/ \E i \in {1, 2, 4, 8} : AttachForward(t, "s1", i, "s2", MaxHandles)
        \/ \E c \in {{0}, {1}} :
            \* destination.connect(callable)
            LET src == PipeAll(signal_source("s2"), Catalog(connect(c))[1]) IN
            /\ WellFormed(src)
            /\ ConnectUpTo(t, "s2", Attached(t, src, 1), MaxHandles)
        \/ ConnectEnd(t)
        \/ \E h \in Holders : holder[h].forward_to # NoSignal /\ DisconnectBegin(t, h)
        \/ DisconnectEnd(t)
        \/ \E a \in Tuples(Arity["s1"]) : EmitWith(t, "s1", 1, a)
        \/ Check(t)
        \/ Invoke(t)
        \/ Forward(t)
        \/ ForwardReturn(t)
        \/ Return(t)

SpecRelay == Init /\ [][NextRelay]_vars

\* single-threaded configuration with inhibitors next to suspend and resume
NextInhibit ==
    \E t \in {"main"} :
        \/ ListOps(t, {"s1"}, {FALSE}, {"callable"}, 1)
        \/ FlagOps(t)
        \/ InhibitorOps(t)

SpecInhibit == Init /\ [][NextInhibit]_vars

\* single-threaded configuration with scoped connections and plain connection
\* objects that go out of scope
NextScoped ==
    \E t \in {"main"} :
        \/ ListOps(t, {"s1"}, {FALSE}, {"callable"}, 1)
        \/ ScopedOps(t)

SpecScoped == Init /\ [][NextScoped]_vars

\* single-threaded configuration in which the signal is destroyed before the
\* connections, scoped connections and guards that refer to its subscriptions
NextDead ==
    \E t \in {"main"} :
        \/ ListOps(t, {"s1"}, {FALSE}, {"callable", "guarded"}, 1)
        \/ FlagOps(t)
        \/ \E h \in Holders : ScopedCreate(t, h)
        \/ \E i \in 1..Len(scoped) : ScopedDestroy(t, i)
        \/ \E g \in Guards : DestroyGuard(t, g)
        \/ \E s \in {"s1"} : DestroySignal(t, s)

SpecDead == Init /\ [][NextDead]_vars

\* concurrent configuration (std::mutex, std::shared_ptr): two threads that
\* connect, disconnect and emit; no reentrant emit
InitConc == InitOf({"t1", "t2"})

NextConc == \E t \in {"t1", "t2"} : ListOps(t, {"s1"}, BOOLEAN, {"callable"}, 1)

SpecConc == InitConc /\ [][NextConc]_vars

\* concurrent configuration of connection handles: two threads that connect
\* up to MaxHandles subscriptions and disconnect, suspend and resume them
\* through the handles; no emit
NextHandle ==
    \E t \in {"t1", "t2"} :
        \/ \E once \in BOOLEAN :
              ConnectUpTo(t, "s1", NewHolder(t, "s1", once, "callable", NoGuard), MaxHandles)
        \/ ConnectEnd(t)
        \/ \E h \in Holders : DisconnectBegin(t, h)
        \/ DisconnectEnd(t)
        \/ FlagOps(t)

SpecHandle == InitConc /\ [][NextHandle]_vars

\* concurrent configuration in which slots also emit, suspend, resume and add
\* exception handlers, and may throw
InitLock == InitOf({"t1", "t2"})

\* thread t is inside the slot of holder h
InSlotOf(t, h) ==
    /\ stack[t] # <<>>
    /\ Top(t).pc = "slot"
    /\ Top(t).slots[Top(t).it] = h

NextLock ==
    \/ \E t \in {"t1"} :
          \/ ConnectBegin(t, "s1", FALSE, "callable", NoGuard)
          \/ ConnectEnd(t)
          \/ \E h \in Holders : InSlotOf(t, h) /\ DisconnectBegin(t, h)
          \/ DisconnectEnd(t)
          \/ Emit(t, "s1", MaxDepth)
          \/ Check(t)
          \/ Invoke(t)
          \/ Return(t)
          \/ \E h \in Holders : InSlotOf(t, h) /\ Suspend(t, h)
          \/ \E h \in Holders : InSlotOf(t, h) /\ Resume(t, h)
          \/ \E h \in Holders : InSlotOf(t, h) /\ AddExceptionHandler(t, h)
          \/ Throw(t)
          \/ Unwind(t)
    \/ \E t \in {"t2"} :
          \/ ConnectBegin(t, "s1", FALSE, "callable", NoGuard)
          \/ ConnectEnd(t)
          \/ \E h \in Holders : DisconnectBegin(t, h)
          \/ DisconnectEnd(t)

SpecLock == InitLock /\ [][NextLock]_vars

\* ------------------------------------------------------------------------
\* Properties
\* ------------------------------------------------------------------------
AllFrames == UNION {Range(stack[t]) : t \in DOMAIN stack}

\* number of snapshot entries of an emit call whose dispatch was decided
\* (skipped, or slot started)
Done(f) == IF f.pc \in {"slot", "forward", "forwarded"} THEN f.it ELSE f.it - 1

Quiescent ==
    /\ \A t \in DOMAIN stack : stack[t] = <<>>
    /\ \A t \in DOMAIN pending : pending[t] = NoPending

\* C1: an emit that meets no suspended subscriber starts the slots of the
\* subscribers connected when it was called, each once, in the order of their
\* connect calls; two connects of the same callable are two subscriptions.
C1_EachOnceInRegistrationOrder ==
    \A f \in AllFrames : f.seen = {} => f.log = SubSeq(f.reg, 1, Done(f))

C1_Witness ==
    \E f \in AllFrames :
        /\ Len(f.reg) = 2
        /\ f.log = f.reg
        /\ holder[f.reg[1]] = holder[f.reg[2]]
        /\ f.seen = {}

\* C2: the slot of a connect_once subscription is started at most once, over
\* all emit calls, reentrant ones included.
C2_OnceAtMostOnce ==
    \A h \in Holders : holder[h].m_single_shot => h \notin refired

\* C3: once disconnect has returned for a subscription, it is in no published
\* list and no emit called afterwards has it in its snapshot or starts its slot.
C3_NoInvocationAfterDisconnect ==
    /\ \A h \in disconnected : h \notin Range(m_slots[holder[h].m_signal])
    /\ \A f \in AllFrames : (Range(f.slots) \cup Range(f.log)) \cap f.gone = {}

C3_Witness ==
    \E f \in AllFrames :
        /\ f.gone # {}
        /\ f.log # <<>>
        /\ \E h \in f.gone : ~holder[h].m_single_shot

\* C4: an emit starts, exactly once, the slot of every snapshot entry that it
\* did not find suspended, also when the entry was disconnected after the
\* snapshot was taken.
C4_SnapshotUnaffectedByDisconnect ==
    \A f \in AllFrames :
        \A i \in 1..Done(f) :
            f.slots[i] \notin f.seen => Occurrences(f.log, f.slots[i]) = 1

C4_Witness ==
    \E f \in AllFrames :
        \E h \in f.late :
            /\ h \in Range(f.log)
            /\ h \notin f.gone
            /\ ~holder[h].m_single_shot

\* C5: while the slot of a single-shot subscription runs, the subscription is
\* not in the published list, nor in the snapshot of any emit called from
\* inside that slot.
C5_SingleShotRemovedBeforeSlot ==
    \A t \in DOMAIN stack :
        \A i \in 1..Len(stack[t]) :
            LET f == stack[t][i]
                h == f.slots[f.it] IN
            (f.pc = "slot" /\ holder[h].m_single_shot) =>
                /\ h \notin Range(m_slots[f.sig])
                /\ \A j \in (i + 1)..Len(stack[t]) : h \notin Range(stack[t][j].slots)

C5_Witness ==
    \E t \in DOMAIN stack :
        /\ Len(stack[t]) = 2
        /\ holder[stack[t][1].slots[stack[t][1].it]].m_single_shot
        /\ stack[t][2].sig = stack[t][1].sig

\* C6: with emit calls running on several threads and no reentrant emit, the
\* slot of a connect_once subscription is started at most once in total.
C6_OnceAtMostOnceConcurrent ==
    \A h \in refired : ~holder[h].m_single_shot

\* C7: no registration is lost by connect calls of several threads: with no
\* call in progress the published list holds every connected subscription
\* exactly once, an emit's snapshot holds every subscription connected
\* before it, and the emit starts each of their slots once.
C7_NoLostRegistration ==
    /\ Quiescent =>
          \A s \in Signals :
              /\ Range(m_slots[s]) = Connected(s)
              /\ Len(m_slots[s]) = Cardinality(Connected(s))
    /\ \A f \in AllFrames :
          /\ Range(f.reg) \subseteq Range(f.slots)
          /\ (f.seen = {} /\ Done(f) = Len(f.slots)) =>
                \A h \in Range(f.reg) : Occurrences(f.log, h) = 1

C7_Witness ==
    /\ Quiescent
    /\ Len(holder) = 2
    /\ holder[1].by # holder[2].by
    /\ Connected("s1") = {1, 2}
    /\ Len(m_slots["s1"]) = 2

\* C8: no slot bound to a receiver object runs after the receiver (guard) was
\* destroyed.
C8_NoUseAfterFree == ~uaf

\* C9: destroying a guard disconnects the subscriptions connected with it as
\* receiver, on every signal, and nothing else: the other subscriptions keep
\* their place in the lists and their suspended state.
GuardedBy(g) == {h \in Holders : holder[h].receiver = g}

C9_DestroyedGuardHasNoSubscription ==
    \A g \in Guards :
        ~guard_alive[g] =>
            /\ \A h \in GuardedBy(g) :
                  /\ h \notin Range(m_slots[holder[h].m_signal])
                  /\ h \in disconnected
            /\ \A f \in AllFrames :
                  \A h \in GuardedBy(g) \cap Range(f.slots) : h \notin f.gone

C9_DestructionFrame ==
    \A g \in Guards :
        (guard_alive[g] /\ ~guard_alive'[g]) =>
            /\ \A s \in Signals :
                  m_slots'[s] = SelectSeq(m_slots[s], LAMBDA h : h \notin GuardedBy(g))
            /\ holder' = holder
            /\ disconnected' \ disconnected \subseteq GuardedBy(g)

C9_GuardDestructionDisconnectsItsOwn ==
    [](C9_DestroyedGuardHasNoSubscription) /\ [][C9_DestructionFrame]_vars

C9_Witness ==
    \E g \in Guards :
        /\ ~guard_alive[g]
        /\ \E h1 \in GuardedBy(g), h2 \in Holders \ GuardedBy(g) :
              /\ holder[h1].member
              /\ h2 \in Range(m_slots[holder[h2].m_signal])
              /\ holder[h2].m_suspended

\* C10: a suspended subscription keeps its place in the list and its slot is
\* not started; suspend and resume change nothing but the flag (no event is
\* queued or replayed), so every emit starts exactly the slots of the
\* subscribers it finds not suspended, in registration order.
C10_DeliveryFollowsFlag ==
    \A f \in AllFrames :
        f.log = SelectSeq(SubSeq(f.reg, 1, Done(f)), LAMBDA h : h \notin f.seen)

C10_FlagOnly ==
    \A h \in Holders :
        holder'[h].m_suspended # holder[h].m_suspended =>
            /\ m_slots' = m_slots
            /\ stack' = stack
            /\ fired' = fired
            /\ refired' = refired
            /\ disconnected' = disconnected
            /\ holder' = [holder EXCEPT ![h].m_suspended = ~holder[h].m_suspended]

C10_SuspendResumeRoundTrip ==
    [](C10_DeliveryFollowsFlag) /\ [][C10_FlagOnly]_vars

C10_Witness ==
    \E t \in DOMAIN stack :
        /\ Len(stack[t]) = 2
        /\ \E h \in stack[t][1].seen :
              /\ h \in Range(stack[t][2].log)
              /\ h \in Range(m_slots[holder[h].m_signal])
              /\ stack[t][2].log = SubSeq(stack[t][2].reg, 1, Len(stack[t][2].log))

\* C11 (as stated): as long as an inhibitor exists, the connection it wraps is
\* suspended.
C11_SuspendedWhileInhibitorLives ==
    \A i \in 1..Len(inhibitors) :
        (inhibitors[i].alive /\ Alive(inhibitors[i].h)) =>
            holder[inhibitors[i].h].m_suspended

\* C11 (amended): an inhibitor suspends its connection when it is constructed
\* from a connection, and the connection stays suspended, no emit starting its
\* slot, until the inhibitor is destroyed or resume is called on the same
\* connection (by user code or by the destruction of another inhibitor of the
\* same connection); destroying an inhibitor resumes the connection, so that
\* the next emit starts the slot.
C11_UndisturbedIsSuspended ==
    \A i \in 1..Len(inhibitors) :
        (inhibitors[i].alive /\ inhibitors[i].undisturbed /\ Alive(inhibitors[i].h)) =>
            /\ holder[inhibitors[i].h].m_suspended
            /\ \A f \in AllFrames : f.pc = "shot" => f.slots[f.it] # inhibitors[i].h

C11_DestructionResumes ==
    \A i \in 1..Len(inhibitors) :
        (inhibitors[i].alive /\ ~inhibitors'[i].alive /\ Alive(inhibitors[i].h)) =>
            ~holder'[inhibitors[i].h].m_suspended

C11_InhibitorSuspendsUntilResumed ==
    [](C11_UndisturbedIsSuspended) /\ [][C11_DestructionResumes]_vars

C11_Witness ==
    /\ Len(inhibitors) = 2
    /\ ~inhibitors[1].alive /\ inhibitors[1].undisturbed
    /\ inhibitors[2].alive /\ inhibitors[2].undisturbed
    /\ inhibitors[1].h # inhibitors[2].h
    /\ \E f \in AllFrames :
          /\ inhibitors[1].h \in Range(f.log)
          /\ inhibitors[2].h \in f.seen

\* C12: a subscription stays in the list until a disconnect is called for it;
\* the destructor of the scoped_connection that owns it is such a call (the
\* subscription is then out of the list and of every later emit), the
\* construction of a scoped_connection is not, and the destruction of a plain
\* connection object is not either: its subscription stays connected and
\* later emits still run its slot.
C12_DestroyedScopedIsDisconnected ==
    \A i \in 1..Len(scoped) :
        (~scoped[i].alive /\ scoped[i].h # NoHolder /\ Quiescent) =>
            /\ scoped[i].h \notin Range(m_slots[holder[scoped[i].h].m_signal])
            /\ scoped[i].h \in disconnected

C12_ConnectedUntilDisconnect ==
    \A h \in Holders :
        (Quiescent /\ h \notin disconnected) => h \in Range(m_slots[holder[h].m_signal])

C12_OnlyDisconnectRemoves ==
    /\ \A h \in Holders :
          (holder[h].connection /\ ~holder'[h].connection) =>
              /\ m_slots' = m_slots
              /\ pending' = pending
              /\ disconnected' = disconnected
    /\ Len(scoped') > Len(scoped) =>
          /\ m_slots' = m_slots
          /\ pending' = pending
          /\ disconnected' = disconnected
    /\ \A h \in disconnected' \ disconnected :
          \E t \in DOMAIN pending : pending[t].op = "disconnect" /\ pending[t].h = h

C12_ScopedDisconnectsPlainDoesNot ==
    /\ [](C12_DestroyedScopedIsDisconnected /\ C12_ConnectedUntilDisconnect)
    /\ [][C12_OnlyDisconnectRemoves]_vars

C12_Witness ==
    \E f \in AllFrames :
        /\ \E i \in 1..Len(scoped) : ~scoped[i].alive /\ scoped[i].h \in f.gone
        /\ \E h \in Range(f.log) : ~holder[h].connection

\* C13: suspend and resume called after a subscription was disconnected change
\* nothing: an emit in progress whose snapshot still holds the subscription
\* skips it exactly when it was suspended at the time it was disconnected.
C13_NoEffectAfterDisconnect ==
    \A f \in AllFrames :
        \A h \in f.late : (h \in f.seen) <=> (h \in suspended_at_disconnect)

\* C14: a holder that was destroyed stays destroyed: whatever is called on the
\* connections, scoped connections and guards that still refer to it, it is
\* in no list again, its state is not written, no destroyed object is used,
\* and the list and the mutex of a destroyed signal are left alone.
C14_NothingDestroyedIsUsed ==
    /\ ~uaf
    /\ \A s \in Signals :
          ~signal_alive[s] => (m_slots[s] = <<>> /\ m_mutex[s] = NoThread)
    /\ \A t \in DOMAIN pending :
          pending[t].op = "disconnect" => signal_alive[pending[t].sig]

C14_DeadStaysDead ==
    \A h \in Holders :
        ~Alive(h) =>
            /\ ~Alive(h)'
            /\ holder'[h] = holder[h]
            /\ (h \in disconnected') = (h \in disconnected)

C14_NoResurrection ==
    [](C14_NothingDestroyedIsUsed) /\ [][C14_DeadStaysDead]_vars

C14_Witness ==
    /\ ~signal_alive["s1"]
    /\ ~guard_alive["g1"]
    /\ \E h \in Holders : holder[h].receiver = "g1" /\ h \notin disconnected
    /\ \E i \in 1..Len(scoped) :
          /\ ~scoped[i].alive
          /\ scoped[i].h \notin disconnected
          /\ Handle(scoped[i].h)
          /\ holder[scoped[i].h].receiver = NoGuard

\* the snapshot entries up to position n that an emit did not find suspended
Dispatched(f, n) == SelectSeq(SubSeq(f.slots, 1, n), LAMBDA h : h \notin f.seen)

\* C15: when a slot run synchronously throws and its subscription had no
\* exception handler, the emit call is left by that exception, which reaches
\* the caller of emit.
C15_EmitIsLeftByException ==
    \A f \in AllFrames :
        \A x \in f.threw : x.handlers = <<>> => (f.pc = "threw" /\ f.it = x.at)

C15_CallerReceives ==
    \A t \in DOMAIN stack :
        (stack[t] # <<>> /\ Top(t).pc = "threw") =>
            stack'[t] = SubSeq(stack[t], 1, Len(stack[t]) - 1)

C15_UnhandledExceptionPropagates ==
    [](C15_EmitIsLeftByException) /\ [][C15_CallerReceives]_vars

C15_Witness ==
    \E t \in DOMAIN stack :
        /\ Len(stack[t]) = 2
        /\ stack[t][2].pc = "threw"
        /\ stack[t][2].it < Len(stack[t][2].slots)
        /\ holder[stack[t][2].slots[2]].m_exception_handlers # <<>>

\* C16: when subscriber i of the snapshot throws with no handler, the emit has
\* run each subscriber before i that it did not find suspended exactly once,
\* in order, and it runs none of the subscribers after i.
C16_FailFast ==
    \A f \in AllFrames :
        \A x \in f.threw :
            x.handlers = <<>> =>
                /\ f.log = Dispatched(f, x.at)
                /\ f.log[Len(f.log)] = f.slots[x.at]
                /\ \A j \in (x.at + 1)..Len(f.slots) : f.slots[j] \notin Range(f.log)

C16_Witness ==
    \E f \in AllFrames :
        /\ f.pc = "threw"
        /\ f.it = 1
        /\ Len(f.slots) = 2
        /\ f.log = <<f.slots[1]>>
        /\ ~holder[f.slots[2]].m_suspended

\* C17 (as stated): when a slot throws and its subscription has handlers at
\* that time, each of them is called once with the exception and the emit
\* goes on.
C17_EveryRegisteredHandler ==
    \A f \in AllFrames :
        \A x \in f.threw :
            x.registered # <<>> =>
                /\ SelectSeq(f.hcalls, LAMBDA c : c.exception.at = x.at) =
                      [i \in 1..Len(x.registered) |->
                          [handler |-> x.registered[i],
                           exception |-> [slot |-> f.slots[x.at], at |-> x.at]]]
                /\ f.it > x.at

\* C17 (amended): when a slot throws and its subscription had handlers when the slot
\* was dispatched, each of them is called once, in registration order, with
\* that one exception; the emit is not left by the exception and goes on
\* with the subscribers that follow.
C17_HandlersSwallow ==
    \A f \in AllFrames :
        /\ \A x \in f.threw :
              x.handlers # <<>> =>
                  /\ SelectSeq(f.hcalls, LAMBDA c : c.exception.at = x.at) =
                        [i \in 1..Len(x.handlers) |->
                            [handler |-> x.handlers[i],
                             exception |-> [slot |-> f.slots[x.at], at |-> x.at]]]
                  /\ x.handlers = SubSeq(holder[f.slots[x.at]].m_exception_handlers,
                                         1, Len(x.handlers))
                  /\ f.it > x.at
        /\ f.pc = "threw" => \E x \in f.threw : x.at = f.it /\ x.handlers = <<>>
        /\ (\A x \in f.threw : x.handlers # <<>>) => f.log = Dispatched(f, Done(f))

C17_Witness ==
    \E f \in AllFrames :
        /\ f.pc = "slot"
        /\ f.it = 2
        /\ \E x \in f.threw : x.at = 1 /\ Len(x.handlers) = 2
        /\ Len(f.hcalls) = 2

\* C18: emit never runs the slot of a subscription with an asynchronous
\* policy in place; it hands the policy one unit of work for each snapshot
\* entry with such a policy that it does not find suspended, in snapshot
\* order, holding the argument of that emit; the slot runs when a unit is
\* executed, once per execution, and receives that argument.
C18_NeverInline ==
    \A f \in AllFrames :
        /\ f.pc \in {"slot", "threw"} => holder[f.slots[f.it]].is_synchronous
        /\ \A h \in Range(f.log) : holder[h].is_synchronous
        /\ f.posted = SelectSeq(SubSeq(f.slots, 1, Done(f)),
                                LAMBDA h : ~holder[h].is_synchronous /\ h \notin f.seen)

C18_UnitsOfTheEmit ==
    \A f \in AllFrames :
        LET n == Len(f.posted) IN
        /\ n <= Len(work)
        /\ \A k \in 1..n :
              /\ work[Len(work) - n + k].h = f.posted[k]
              /\ work[Len(work) - n + k].emitted = f.arg

C18_SlotRunsWithTheUnit ==
    /\ \A i \in 1..Len(work) :
          /\ ~holder[work[i].h].is_synchronous
          /\ work[i].runs # <<>> => work[i].runs[1].received = work[i].emitted
    /\ \A h \in Holders :
          ~holder[h].is_synchronous =>
              /\ h \in fired <=> \E i \in 1..Len(work) : work[i].h = h /\ work[i].runs # <<>>
              /\ h \in refired <=>
                    \/ \E i \in 1..Len(work) : work[i].h = h /\ Len(work[i].runs) > 1
                    \/ \E i, j \in 1..Len(work) :
                          /\ i # j
                          /\ work[i].h = h /\ work[j].h = h
                          /\ work[i].runs # <<>> /\ work[j].runs # <<>>

C18_AsynchronousDispatch ==
    C18_NeverInline /\ C18_UnitsOfTheEmit /\ C18_SlotRunsWithTheUnit

C18_Witness ==
    /\ Len(work) = 2
    /\ work[1].h = work[2].h
    /\ work[1].emitted # work[2].emitted
    /\ Len(work[1].runs) = 1
    /\ work[2].runs = <<>>
    /\ \E h \in Holders :
          /\ h < work[1].h
          /\ ~holder[h].is_synchronous
          /\ holder[h].m_suspended
          /\ h \in Range(m_slots[holder[h].m_signal])
          /\ h \notin fired

\* C19: a unit of work uses the exception handlers that were registered when
\* the emit made it: with none, an exception of the slot escapes from the
\* execution of the unit, not from emit, also when handlers were added in
\* between; with some, the exception goes to each of them.
C19_UnitKeepsItsHandlers ==
    /\ \A i \in 1..Len(work) :
          /\ work[i].exception_handlers =
                SubSeq(holder[work[i].h].m_exception_handlers,
                       1, Len(work[i].exception_handlers))
          /\ \A k \in 1..Len(work[i].runs) :
                LET r == work[i].runs[k] IN
                /\ r.outcome = "escaped" => work[i].exception_handlers = <<>>
                /\ r.outcome = "handled" =>
                      /\ work[i].exception_handlers # <<>>
                      /\ r.hcalls =
                            [j \in 1..Len(work[i].exception_handlers) |->
                                [handler |-> work[i].exception_handlers[j],
                                 exception |-> [slot |-> work[i].h, at |-> i]]]
                /\ r.outcome # "handled" => r.hcalls = <<>>
    /\ \A f \in AllFrames : f.pc = "threw" => holder[f.slots[f.it]].is_synchronous

C19_UnitCopiesAtEmit ==
    Len(work') > Len(work) =>
        work'[Len(work')].exception_handlers =
            holder[work'[Len(work')].h].m_exception_handlers

C19_HandlersOfTheEmit ==
    [](C19_UnitKeepsItsHandlers) /\ [][C19_UnitCopiesAtEmit]_vars

C19_Witness ==
    /\ Len(work) = 2
    /\ work[1].h = work[2].h
    /\ work[1].exception_handlers = <<>>
    /\ Len(work[1].runs) = 1
    /\ work[1].runs[1].outcome = "escaped"
    /\ work[1].runs[1].registered # <<>>
    /\ Len(work[2].runs) = 1
    /\ work[2].runs[1].outcome = "handled"

\* C20: the connection of a forwarding link is owned by the destination
\* signal: once the destination is destroyed the link is out of the list of
\* the source, and an emit of the source called afterwards neither has the
\* link in its snapshot nor runs the forwarding closure, so it does not reach
\* the destroyed signal.
ForwardingTo(d) == {h \in Holders : holder[h].forward_to = d /\ Handle(h)}

C20_LinkDiesWithDestination ==
    \A d \in Signals :
        ~signal_alive[d] =>
            \A h \in ForwardingTo(d) :
                /\ h \in disconnected
                /\ h \notin Range(m_slots[holder[h].m_signal])
                /\ \A f \in AllFrames :
                      \* an emit that still has the link was called before
                      (f.sig = holder[h].m_signal /\ h \in Range(f.slots)) =>
                          h \notin f.gone

C20_Witness ==
    /\ ~signal_alive["s2"]
    /\ \E h \in ForwardingTo("s2"), f \in AllFrames :
          /\ f.sig = "s1"
          /\ h \in f.gone
          /\ h \in fired
          /\ f.pc = "slot"

\* the calls of the callable of holder h made by the emit of frame f
CallsOf(f, h) == SelectSeq(f.calls, LAMBDA c : c.slot = h)

\* the adapter of the one-adapter expression holder h was made by
AdapterOf(h) == Catalog(connect(holder[h].accepts))[holder[h].expr][1]

\* C22: map<I1,...,Ik> calls the downstream slot, once per emit, with the
\* emitted arguments at positions I1..Ik in that order; when the slot takes
\* all k of them it receives exactly that tuple.
C22_MapSelectsInOrder ==
    \A f \in AllFrames : \A h \in Range(f.log) :
        (holder[h].expr \in Maps /\ Len(AdapterOf(h).indexes) \in holder[h].accepts) =>
            LET I == AdapterOf(h).indexes IN
            CallsOf(f, h) = <<[slot |-> h, args |-> [k \in 1..Len(I) |-> f.arg[I[k] + 1]]]>>

C22_Witness ==
    \E f \in AllFrames : \E h \in Range(f.log) :
        /\ holder[h].expr \in Maps
        /\ AdapterOf(h).indexes = <<1, 0>>
        /\ f.arg[1] # f.arg[2]
        /\ CallsOf(f, h) = <<[slot |-> h, args |-> <<f.arg[2], f.arg[1]>>]>>

\* C23: filter(pred) calls the downstream slot if and only if pred, called
\* with the longest prefix of the event's arguments it accepts, returns true;
\* a passing event makes one call with the arguments unchanged, a failing one
\* none; the adapter keeps nothing from one event to the next (the outcome is
\* the result of pred for this event alone).
PredBefore(h) ==
    IF AdapterOf(h).pred = "every_other" THEN 1 - holder[h].memory[1]
    ELSE holder[h].memory[1]

C24_TransformByPosition ==
    \A f \in AllFrames : \A h \in Range(f.log) :
        (holder[h].expr \in Transforms /\ Len(f.arg) \in holder[h].accepts) =>
            LET fns == AdapterOf(h).fns IN
            CallsOf(f, h) =
                <<[slot |-> h,
                   args |-> [k \in 1..Len(f.arg) |->
                                IF k <= Len(fns) THEN Transformation(fns[k], f.arg[k])
                                ELSE f.arg[k]]]>>

C24_Witness ==
    \E f \in AllFrames : \E h \in Range(f.log) :
        /\ holder[h].expr \in Transforms
        /\ AdapterOf(h).fns = <<"inc">>
        /\ f.arg = <<1, 2>>
        /\ CallsOf(f, h) = <<[slot |-> h, args |-> <<2, 2>>]>>

\* C26: a callable connected to a signal of N arguments is called once per
\* emit with the first K emitted values, K being the largest number of
\* leading arguments it accepts.
C26_LongestAcceptedPrefix ==
    \A f \in AllFrames : \A h \in Range(f.log) :
        holder[h].expr \in Plain =>
            \E K \in holder[h].accepts :
                /\ K <= Len(f.arg)
                /\ \A k \in holder[h].accepts : k <= Len(f.arg) => k <= K
                /\ CallsOf(f, h) = <<[slot |-> h, args |-> SubSeq(f.arg, 1, K)]>>

C26_Witness ==
    \E f \in AllFrames : \E h1, h2 \in Range(f.log) :
        /\ holder[h1].expr \in Plain /\ holder[h1].accepts = {1}
        /\ holder[h2].expr \in Plain /\ holder[h2].accepts = {0, 2}
        /\ f.arg[1] # f.arg[2]
        /\ CallsOf(f, h1) = <<[slot |-> h1, args |-> <<f.arg[1]>>]>>
        /\ CallsOf(f, h2) = <<[slot |-> h2, args |-> f.arg]>>

\* C25: adapters apply left to right whatever the grouping: for an event,
\* source | a | b | connect(f), source | (a | b) | connect(f) and
\* source | ((a | b) | connect(f)) call f the same way, and with a = filter
\* and b = transform the predicate sees the untransformed value.
Regrouped == 11..13

ArgsOf(f, h) == [k \in 1..Len(CallsOf(f, h)) |-> CallsOf(f, h)[k].args]

C25_GroupingIsIrrelevant ==
    \A f \in AllFrames :
        /\ \A h1, h2 \in Range(f.log) :
              (/\ holder[h1].expr \in Regrouped
               /\ holder[h2].expr \in Regrouped
               /\ holder[h1].accepts = holder[h2].accepts) =>
                  ArgsOf(f, h1) = ArgsOf(f, h2)
        /\ \A h \in Range(f.log) :
              (holder[h].expr \in Regrouped /\ Len(f.arg) \in holder[h].accepts) =>
                  ArgsOf(f, h) = IF f.arg[1] % 2 = 0
                                 THEN << <<f.arg[1] + 1, f.arg[2]>> >>
                                 ELSE <<>>

C25_Witness ==
    \E f \in AllFrames : \E h1, h2 \in Range(f.log) :
        /\ holder[h1].expr = 11
        /\ holder[h2].expr = 13
        /\ holder[h1].accepts = {2} /\ holder[h2].accepts = {2}
        /\ f.arg = <<2, 0>>
        /\ ArgsOf(f, h1) = << <<3, 0>> >>
        /\ ArgsOf(f, h2) = << <<3, 0>> >>

\* C21: a chain value attached to several root signals makes one
\* registration per attachment: an emit of a root calls the callable only
\* through the attachments to that root, a disconnect removes nothing but its
\* own attachment, and each attachment has its own copy of the adapter state
\* (the first event of each attachment meets the predicate in its initial
\* state, and a dispatch changes the state of its own attachment only).
C21_OwnRootOnly ==
    \A f \in AllFrames :
        /\ \A k \in 1..Len(f.calls) : holder[f.calls[k].slot].m_signal = f.sig
        /\ \A h \in Range(f.log) :
              (holder[h].expr \in Chains /\ h \notin refired) =>
                  /\ Len(CallsOf(f, h)) = 1
                  /\ 1 \in holder[h].accepts => ArgsOf(f, h) = << <<2 * f.arg[1]>> >>

C21_IndependentAttachments ==
    /\ \A s \in Signals : \A h \in Range(m_slots[s]) \ Range(m_slots'[s]) :
          \E t \in DOMAIN pending : pending[t].op = "disconnect" /\ pending[t].h = h
    /\ \A h \in Holders :
          holder'[h].memory # holder[h].memory =>
              \E t \in DOMAIN stack :
                  /\ stack[t] # <<>> /\ stack'[t] # <<>>
                  /\ stack[t][Len(stack[t])].pc = "shot"
                  /\ stack[t][Len(stack[t])].slots[stack[t][Len(stack[t])].it] = h
    /\ Len(holder') > Len(holder) =>
          \A k \in DOMAIN holder'[Len(holder')].memory : holder'[Len(holder')].memory[k] = 0

C21_OneRegistrationPerAttachment ==
    /\ []C21_OwnRootOnly
    /\ [][C21_IndependentAttachments]_vars

C21_Witness ==
    \E h1, h2 \in Holders : \E f \in AllFrames :
        /\ holder[h1].expr \in Chains /\ holder[h2].expr \in Chains
        /\ holder[h1].m_signal = "s1" /\ holder[h2].m_signal = "s2"
        /\ h1 \in refired
        /\ h1 \in disconnected
        /\ f.sig = "s2" /\ h2 \in Range(f.log) /\ h2 \notin refired
        /\ Len(CallsOf(f, h2)) = 1

\* C28: no mutex is held by a thread while a slot or an exception handler
\* runs on it; a mutex is held only by a thread inside connect_impl or
\* disconnect, and that thread can always go on to release it: whatever a
\* slot calls on its own signal or connection, no thread waits forever.
C28_NoLockInUserCode ==
    /\ \A t \in DOMAIN stack : \A s \in Signals :
          (pending[t] = NoPending) => m_mutex[s] # t
    /\ \A s \in Signals :
          m_mutex[s] # NoThread =>
              /\ pending[m_mutex[s]].op \in {"connect", "disconnect"}
              /\ pending[m_mutex[s]].sig = s
              /\ ENABLED (ConnectEnd(m_mutex[s]) \/ DisconnectEnd(m_mutex[s]))

C28_NoLockInHandler ==
    \A t \in DOMAIN stack :
        (/\ stack[t] # <<>> /\ stack'[t] # <<>>
         /\ \E i \in 1..Len(stack'[t]) :
               i <= Len(stack[t]) /\ Len(stack'[t][i].hcalls) > Len(stack[t][i].hcalls)) =>
            \A s \in Signals : m_mutex[s] # t

C27_IteratesOneVersion ==
    \A f \in AllFrames :
        /\ f.slots = f.reg
        /\ f.log = SelectSeq(SubSeq(f.slots, 1, Done(f)), LAMBDA h : h \notin f.seen)

C27_VersionsAreNotModified ==
    \A t \in DOMAIN stack :
        \A i \in 1..Len(stack[t]) :
            i <= Len(stack'[t]) =>
                /\ stack'[t][i].slots = stack[t][i].slots
                /\ stack'[t][i].sig = stack[t][i].sig

C27_CopyOnWrite ==
    /\ []C27_IteratesOneVersion
    /\ [][C27_VersionsAreNotModified]_vars

C27_Witness ==
    \E f \in Range(stack["t1"]) :
        /\ f.pc = "slot"
        /\ \E h \in Range(f.slots) : h \notin Range(m_slots[f.sig])
        /\ \E h \in Range(m_slots[f.sig]) : h \notin Range(f.slots) /\ holder[h].by = "t2"

\* C29: an emit dispatches only subscribers whose connect had returned when
\* it took its snapshot, and it dispatches every one of those: a subscriber
\* connected during an emit is left out of it and is in every later one.
C29_ConnectedBeforeTheSnapshot ==
    \A f \in AllFrames :
        /\ Range(f.log) \cup f.seen \subseteq Range(f.reg)
        /\ \A h \in Range(f.reg) :
              \E i \in 1..Len(f.slots) :
                  /\ f.slots[i] = h
                  /\ (i <= Done(f) /\ h \notin f.seen) => h \in Range(f.log)

C29_Witness ==
    \E f1 \in Range(stack["t1"]), f2 \in Range(stack["t2"]) :
        \E h \in Range(f2.log) :
            /\ holder[h].by = "t1"
            /\ h \notin Range(f1.reg)
            /\ f1.pc = "slot"
            /\ f1.it = Len(f1.slots)

\* C30: the suspended flag is read when a subscriber is dispatched, not when
\* the snapshot is taken: the emit skips the subscriber exactly when the flag
\* is set at that moment, whether or not it was disconnected meanwhile, so a
\* subscriber suspended by an earlier slot of the emit is skipped and one
\* resumed by an earlier slot is invoked.
C30_FlagAtDispatch ==
    \A t \in DOMAIN stack :
        (stack[t] # <<>> /\ Top(t).pc = "call" /\ stack'[t] # stack[t]) =>
            LET n == Len(stack[t])
                h == Top(t).slots[Top(t).it] IN
            IF holder[h].m_suspended
            THEN \/ Len(stack'[t]) = n - 1
                 \/ /\ Len(stack'[t]) = n
                    /\ stack'[t][n].it = Top(t).it + 1
                    /\ stack'[t][n].log = Top(t).log
                    /\ h \in stack'[t][n].seen
            ELSE /\ Len(stack'[t]) = n
                 /\ stack'[t][n].pc = "shot"
                 /\ stack'[t][n].it = Top(t).it

C30_Dispatched ==
    \A f \in AllFrames :
        \A i \in 1..Done(f) : (f.slots[i] \in Range(f.log)) <=> (f.slots[i] \notin f.seen)

C30_SuspendActsOnEmitInProgress ==
    /\ []C30_Dispatched
    /\ [][C30_FlagAtDispatch]_vars

C30_Witness ==
    \E f \in AllFrames :
        /\ Len(f.log) = 2
        /\ f.log[2] \in f.asleep
        /\ f.log[2] \notin f.seen
        /\ f.pc = "slot"

\* C31: a single-shot subscription that is suspended when an emit reaches it
\* is skipped without being consumed (the list, the disconnected set and the
\* fired set are unchanged, its slot is not started); when an emit reaches it
\* while it is not suspended, it is disconnected and its slot is invoked.
C31_SkippedIsKept ==
    \A t \in DOMAIN stack :
        (stack[t] # <<>> /\ Top(t).pc = "call" /\ stack'[t] # stack[t]) =>
            LET n == Len(stack[t])
                h == Top(t).slots[Top(t).it] IN
            (holder[h].m_single_shot /\ holder[h].m_suspended) =>
                /\ m_slots' = m_slots
                /\ disconnected' = disconnected
                /\ fired' = fired
                /\ \/ Len(stack'[t]) = n - 1
                   \/ /\ Len(stack'[t]) = n
                      /\ stack'[t][n].it = Top(t).it + 1
                      /\ stack'[t][n].log = Top(t).log

C31_ReachedIsConsumed ==
    \A t \in DOMAIN stack :
        (stack[t] # <<>> /\ stack'[t] # stack[t]) =>
            LET n == Len(stack[t])
                h == Top(t).slots[Top(t).it] IN
            /\ (Top(t).pc = "call" /\ holder[h].m_single_shot /\ ~holder[h].m_suspended) =>
                  /\ Len(stack'[t]) = n
                  /\ stack'[t][n].pc = "shot"
                  /\ stack'[t][n].it = Top(t).it
            /\ (Top(t).pc = "shot" /\ holder[h].m_single_shot) =>
                  /\ h \notin Range(m_slots'[Top(t).sig])
                  /\ h \in disconnected'
                  /\ h \in fired'
                  /\ Len(stack'[t]) = n
                  /\ stack'[t][n].pc = "slot"
                  /\ stack'[t][n].log = Append(Top(t).log, h)

C31_SuspendedSingleShotIsNotConsumed ==
    /\ [][C31_SkippedIsKept]_vars
    /\ [][C31_ReachedIsConsumed]_vars

\* an emit skipped the suspended single-shot subscription; a slot of that
\* emit resumed it and emitted again, and the second emit removed it from the
\* list and started its slot
C31_Witness ==
    \E t \in DOMAIN stack :
        /\ Len(stack[t]) = 2
        /\ LET f1 == stack[t][1]
               f2 == stack[t][2]
               h == f2.slots[f2.it] IN
            /\ holder[h].m_single_shot
            /\ h \in f1.seen
            /\ h \notin Range(f1.log)
            /\ f2.pc = "slot"
            /\ f2.log[Len(f2.log)] = h
            /\ h \in disconnected
            /\ h \notin Range(m_slots[f2.sig])

\* C32: a slot exception leaves the subscription state as it is: the step in
\* which a slot throws (handled or rethrown) and the step in which the
\* exception leaves emit change neither the subscriber lists, nor a suspended
\* flag, nor a handler list, nor the set of disconnected subscriptions; and
\* an emit called after a subscription threw finds it in its snapshot and
\* invokes it again unless it was disconnected or suspended meanwhile.
C32_ExceptionChangesNothing ==
    \A t \in DOMAIN stack :
        (/\ stack[t] # <<>>
         /\ Top(t).pc \in {"slot", "threw"}
         /\ stack'[t] # stack[t]
         /\ Len(stack'[t]) <= Len(stack[t])) =>
            /\ m_slots' = m_slots
            /\ disconnected' = disconnected
            /\ Len(holder') = Len(holder)
            /\ \A h \in Holders :
                  /\ holder'[h].m_suspended = holder[h].m_suspended
                  /\ holder'[h].m_exception_handlers = holder[h].m_exception_handlers

C32_ThrowerInvokedAgain ==
    \A t \in DOMAIN stack :
        \A i \in 1..Len(stack[t]) : \A j \in (i + 1)..Len(stack[t]) :
            LET f1 == stack[t][i]
                f2 == stack[t][j] IN
            \A x \in f1.threw :
                LET h == f1.slots[x.at] IN
                (f1.it > x.at /\ f2.sig = f1.sig /\ h \notin f2.gone) =>
                    /\ h \in Range(f2.slots)
                    /\ \A k \in 1..Done(f2) :
                          (f2.slots[k] = h /\ h \notin f2.seen) => h \in Range(f2.log)

C32_ExceptionLeavesStateUnchanged ==
    /\ []C32_ThrowerInvokedAgain
    /\ [][C32_ExceptionChangesNothing]_vars

\* the first subscriber threw and its handler swallowed the exception; the
\* second subscriber of the same emit emits again and the thrower's slot is
\* started by that emit
C32_Witness ==
    \E t \in DOMAIN stack :
        /\ Len(stack[t]) = 2
        /\ LET f1 == stack[t][1]
               f2 == stack[t][2] IN
            /\ f1.it = 2
            /\ \E x \in f1.threw : x.at = 1 /\ x.handlers # <<>>
            /\ f2.pc = "slot"
            /\ f2.slots[f2.it] = f1.slots[1]
            /\ f2.slots = f1.slots
            /\ Len(f1.slots) = 2

\* C33: exception handlers are per connection: every handler an emit calls
\* for an exception was given to the connection whose slot threw it, and an
\* exception thrown by a subscriber that has no handler of its own leaves
\* the emit, whatever handlers the other subscribers of the signal have.
C33_HandlersArePerConnection ==
    \A f \in AllFrames :
        /\ \A k \in 1..Len(f.hcalls) :
              LET c == f.hcalls[k] IN
              /\ c.handler[1] = c.exception.slot
              /\ c.exception.slot = f.slots[c.exception.at]
              /\ \E x \in f.threw : x.at = c.exception.at
              /\ \E i \in 1..Len(holder[c.exception.slot].m_exception_handlers) :
                    holder[c.exception.slot].m_exception_handlers[i] = c.handler
        /\ \A x \in f.threw :
              x.registered = <<>> =>
                  /\ f.pc = "threw"
                  /\ f.it = x.at
                  /\ \A k \in 1..Len(f.hcalls) : f.hcalls[k].exception.at # x.at

\* a subscriber without handler threw while the other subscriber of the
\* snapshot has one: the exception leaves the emit and no handler was called
C33_Witness ==
    \E f \in AllFrames :
        /\ f.pc = "threw"
        /\ Len(f.slots) = 2
        /\ f.it = 1
        /\ holder[f.slots[1]].m_exception_handlers = <<>>
        /\ holder[f.slots[2]].m_exception_handlers # <<>>
        /\ f.slots[2] \in Range(m_slots[f.sig])
        /\ f.hcalls = <<>>

\* C34: a unit of work handed to an asynchronous policy is not cancelled:
\* whatever happened to its connection since the emit (disconnect, suspend),
\* the unit can be run, and its first run starts the slot with the arguments
\* captured at the emit.
C34_UnitCanRun ==
    \A i \in 1..Len(work) :
        (UserCode("main") /\ work[i].runs = <<>>) => ENABLED RunWork("main", i, FALSE)

C34_RunsWithCapturedArguments ==
    \A i \in 1..Len(work) :
        (Len(work') >= i /\ work[i].runs = <<>> /\ work'[i].runs # <<>>) =>
            /\ work'[i].runs[1].received = work[i].emitted
            /\ work'[i].h = work[i].h
            /\ work[i].h \in fired'

C35_BoundedBySnapshot ==
    \A f \in AllFrames :
        /\ f.it <= Len(f.slots)
        /\ Len(f.log) + Cardinality(f.seen) <= f.it
        /\ Len(f.log) <= Len(f.slots)

C35_LoopAdvances ==
    \A t \in DOMAIN stack :
        (stack[t] # <<>> /\ stack'[t] # <<>>) =>
            /\ stack'[t][1].slots = stack[t][1].slots
            /\ stack'[t][1].it >= stack[t][1].it

C35_EmitReturns == (stack["main"] # <<>>) ~> (stack["main"] = <<>>)

C35_EmitTerminates ==
    /\ []C35_BoundedBySnapshot
    /\ [][C35_LoopAdvances]_vars
    /\ C35_EmitReturns

\* the slot of the last entry of the snapshot connected a subscriber to the
\* signal being emitted: the list is longer than the snapshot
C35_Witness ==
    \E f \in AllFrames :
        /\ f.pc = "slot"
        /\ f.it = Len(f.slots)
        /\ Len(m_slots[f.sig]) > Len(f.slots)
        /\ \E h \in Range(m_slots[f.sig]) : h \notin Range(f.slots) /\ ~holder[h].m_suspended
        /\ Len(f.log) = Len(f.slots)

\* C36: the connection returned by a connect call designates the
\* subscription that call appended, also with connects of other threads in
\* progress; a disconnect through it removes that subscription from the list
\* and nothing else, a suspend or resume through it changes that flag and
\* nothing else, and the other subscriptions keep their order and state.
C36_ConnectAppendsItsOwn ==
    \A t \in DOMAIN pending :
        (pending[t].op = "connect" /\ pending'[t].op = "none") =>
            LET h == pending[t].h
                s == pending[t].sig IN
            /\ holder[h].by = t
            /\ \A x \in Signals : h \notin Range(m_slots[x])
            /\ m_slots' = [m_slots EXCEPT ![s] = Append(@, h)]
            /\ holder' = holder
            /\ disconnected' = disconnected

C36_DisconnectRemovesItsOwn ==
    \A t \in DOMAIN pending :
        (pending[t].op = "disconnect" /\ pending'[t].op = "none") =>
            LET h == pending[t].h IN
            /\ m_slots' = [m_slots EXCEPT ![holder[h].m_signal] =
                              SelectSeq(@, LAMBDA x : x # h)]
            /\ disconnected' = disconnected \cup {h}
            /\ \A k \in Holders :
                  /\ holder'[k].m_suspended = holder[k].m_suspended
                  /\ holder'[k].m_single_shot = holder[k].m_single_shot
                  /\ holder'[k].m_exception_handlers = holder[k].m_exception_handlers

C36_SuspendChangesItsOwn ==
    \A h \in Holders :
        holder'[h].m_suspended # holder[h].m_suspended =>
            /\ holder' = [holder EXCEPT ![h].m_suspended = ~holder[h].m_suspended]
            /\ m_slots' = m_slots
            /\ disconnected' = disconnected

C36_HandleDesignatesOneEntry ==
    \A h \in Holders :
        LET s == holder[h].m_signal IN
        /\ Occurrences(m_slots[s], h) <= 1
        /\ (Handle(h) /\ h \notin disconnected) => Occurrences(m_slots[s], h) = 1
        /\ h \in disconnected => Occurrences(m_slots[s], h) = 0

C36_ConnectionDesignatesItsSubscription ==
    /\ []C36_HandleDesignatesOneEntry
    /\ [][C36_ConnectAppendsItsOwn]_vars
    /\ [][C36_DisconnectRemovesItsOwn]_vars
    /\ [][C36_SuspendChangesItsOwn]_vars

\* three subscriptions connected by two threads; the one in the middle of the
\* list was disconnected through its handle and the other two are in the
\* list in their order, one of them suspended through its own handle
C36_Witness ==
    /\ Len(holder) = 3
    /\ \E a, b, c \in Holders :
          /\ m_slots["s1"] = <<a, c>>
          /\ b \in disconnected
          /\ a < b /\ b < c
          /\ holder[a].by # holder[b].by
          /\ holder[c].m_suspended
          /\ ~holder[a].m_suspended
          /\ ~holder[b].m_suspended

\* the argument lists the adapted source of forwarding holder h emits for the
\* emit of frame f, written out for the sources of the relay configuration
SourceEmits(f, h) ==
    LET e == holder[h].expr
        a == f.arg IN
    CASE e = 1 -> <<a>>
      [] e = 2 -> << <<a[2], a[1]>> >>
      [] e = 4 -> << <<a[2]>> >>
      [] e = 8 -> IF a[1] % 2 = 0 THEN <<a>> ELSE <<>>

\* C37: while a forwarding link is connected, each emit of its (adapted)
\* source makes exactly one emit on the destination signal, with the first
\* arguments of the source up to the destination's arity; that emit invokes
\* every destination subscriber once, and a destination subscriber is never
\* invoked before a link has been dispatched.
C37_OneEmitWithThePrefix ==
    \A t \in DOMAIN stack :
        (stack[t] # <<>> /\ Top(t).pc = "forward" /\ stack'[t] # stack[t]) =>
            LET n == Len(stack[t])
                h == Top(t).slots[Top(t).it]
                d == holder[h].forward_to
                from == SourceEmits(Top(t), h) IN
            /\ stack'[t][n].pc = "forwarded"
            /\ IF from # <<>> /\ m_slots[d] # <<>>
               THEN /\ Len(stack'[t]) = n + 1
                    /\ stack'[t][n + 1].sig = d
                    /\ stack'[t][n + 1].slots = m_slots[d]
                    /\ stack'[t][n + 1].arg = SubSeq(from[1], 1, Arity[d])
               ELSE Len(stack'[t]) = n

C37_DestinationSubscribersOnce ==
    \A t \in DOMAIN stack :
        /\ \A i \in 1..Len(stack[t]) :
              LET f == stack[t][i] IN
              /\ f.sig = "s2" => (i > 1 /\ stack[t][i - 1].pc = "forwarded"
                                       /\ holder[stack[t][i - 1].slots[stack[t][i - 1].it]]
                                             .forward_to = "s2")
              /\ (f.pc = "forwarded" /\ i < Len(stack[t])) =>
                    LET g == stack[t][i + 1] IN
                    /\ i + 1 = Len(stack[t])
                    /\ g.log = SubSeq(g.slots, 1, Done(g))
                    /\ \A k \in 1..Len(g.log) :
                          SelectSeq(g.calls, LAMBDA c : c.slot = g.log[k]) =
                             <<[slot |-> g.log[k],
                                args |-> Received(holder[g.log[k]].accepts, g.arg)]>>
        /\ \A h \in fired :
              holder[h].m_signal = "s2" =>
                 \E l \in fired : holder[l].forward_to = "s2"

C37_ForwardingReEmitsOnce ==
    /\ []C37_DestinationSubscribersOnce
    /\ [][C37_OneEmitWithThePrefix]_vars

\* s1 emitted (x, y) with x # y through a link whose source is s1 | map<1, 0>:
\* s2 emitted (y) once, and both subscribers of s2 were invoked with it
C37_Witness ==
    \E t \in DOMAIN stack :
        /\ Len(stack[t]) = 2
        /\ LET f == stack[t][1]
               g == stack[t][2]
               h == f.slots[f.it] IN
            /\ f.pc = "forwarded"
            /\ holder[h].expr = 2
            /\ h \notin disconnected
            /\ f.arg[1] # f.arg[2]
            /\ g.arg = <<f.arg[2]>>
            /\ Len(g.slots) = 2
            /\ g.log = g.slots
            /\ g.pc = "slot"
            /\ \A k \in 1..2 : holder[g.slots[k]].accepts = {1}
            /\ Len(g.calls) = 2

\* C38: in one emit the arguments are forwarded (moved) to the last
\* subscriber of the snapshot only and are passed as lvalues to the others:
\* every dispatch finds the emitted values, never moved-from ones; the
\* dispatches before the last position take a copy each, the one at the last
\* position takes none.
C38_OnlyTheLastIsForwarded ==
    \A f \in AllFrames :
        /\ \A k \in 1..Len(f.passed) :
              LET p == f.passed[k] IN
              /\ p.value = f.arg
              /\ p.moved <=> (p.slot = f.slots[Len(f.slots)])
              /\ \A j \in 1..Len(f.passed) : j # k => f.passed[j].slot # p.slot
        /\ Cardinality({k \in 1..Len(f.passed) : ~f.passed[k].moved}) =
              Cardinality({i \in 1..Min({Done(f), Len(f.slots) - 1}) : f.slots[i] \notin f.seen})
        /\ f.moved => (Done(f) = Len(f.slots))

C38_UnitsOwnTheirArguments ==
    \A i \in 1..Len(work) : work[i].emitted \in Args

C38_ArgumentsMovedToLastOnly == C38_OnlyTheLastIsForwarded /\ C38_UnitsOwnTheirArguments

\* an emit with an argument over two subscribers, the first given an lvalue
\* (a copy for a by-value slot) and the second the forwarded argument
C38_Witness ==
    \E f \in AllFrames :
        /\ Len(f.slots) = 2
        /\ f.arg \in Args
        /\ f.pc = "slot"
        /\ f.passed = <<[slot |-> f.slots[1], value |-> f.arg, moved |-> FALSE],
                        [slot |-> f.slots[2], value |-> f.arg, moved |-> TRUE]>>
        /\ holder[f.slots[1]].is_synchronous

\* C39: the list of connections a living guard owns holds entries only for
\* subscriptions that are still connected: a subscription registered through
\* the guard and disconnected since (by its handle or by its single-shot
\* dispatch) has been removed from it.
C39_GuardOwnsConnectedOnly ==
    \A g \in Guards :
        guard_alive[g] =>
            \A k \in 1..Len(m_emitting_sources[g]) :
                m_emitting_sources[g][k] \notin disconnected

\* the living pointer objects that refer to block b
LiveShared(b) ==
    {p \in 1..MaxPointers : heap.pointers[p] = [kind |-> "shared", m_holder |-> b]}
LiveWeak(b) ==
    {p \in 1..MaxPointers : heap.pointers[p] = [kind |-> "weak", m_holder |-> b]}

\* C40: the strong count of a control block is the number of living shared
\* pointers that refer to it and its weak count the number of living weak
\* pointers; the managed object is deleted once, when no shared pointer is
\* left, and the block is deleted once, when no pointer of either kind is left.
C40_CountsMatchLivePointers ==
    \A b \in 1..Len(heap.blocks) :
        LET c == heap.blocks[b] IN
        /\ ~c.freed => /\ c.count = Cardinality(LiveShared(b))
                       /\ c.weak_count = Cardinality(LiveWeak(b))
        /\ c.deletes = IF LiveShared(b) = {} THEN 1 ELSE 0
        /\ c.pointer <=> (c.deletes = 0)
        /\ c.frees = IF LiveShared(b) = {} /\ LiveWeak(b) = {} THEN 1 ELSE 0
        /\ c.freed <=> (c.frees = 1)

====
